---- MODULE Spec2Model ----
(***************************************************************************)
(* Model of astro_ndslice: offset normalisation, combined-shape            *)
(* computation and slice derivation (offset.py), and the section-string    *)
(* parser (slices.py).                                                     *)
(*                                                                         *)
(* Numbers.  Offsets are real numbers in the program.  They are modelled   *)
(* in fixed point: an offset value v stands for v / Unit pixels.  Shapes   *)
(* and slice bounds are whole pixels.  An "intified" offset matrix keeps   *)
(* the fixed-point scale and holds whole multiples of Unit.                *)
(*                                                                         *)
(* Arrays.  An array argument is a record [ndim, rows]: rows is a matrix   *)
(* (sequence of equally long rows).  ndim = 1 is a single vector (rows has *)
(* one row), ndim = 2 the matrix itself, ndim = 3 the matrix wrapped in    *)
(* one more pair of brackets (array shape 1 x n x D).                      *)
(*                                                                         *)
(* Optional values (Python None) are records [some, v]; a slice object is  *)
(* a record [start, stop, step] of optional integers.  Strings are         *)
(* sequences of one-character strings.                                     *)
(***************************************************************************)
EXTENDS Integers, Sequences, FiniteSets, TLC

VARIABLES shapes, offsets, pc, args, reg_ret, shape_ret, slice_ret, parse_ret,
          rule, rule_args, rule_ret, objs, list_args, list_ret,
          target, reference, phys_args, phys_ret

\* the arguments and results of the calls of offset.py
offvars == <<shapes, offsets, args, reg_ret, shape_ret, slice_ret, parse_ret>>
\* the arguments and results of the calls of slices.py and of list.py
rulevars == <<rule, rule_args, rule_ret>>
listvars == <<objs, list_args, list_ret>>
\* the arguments and the result of calc_offset_physical
physvars == <<target, reference, phys_args, phys_ret>>

vars == <<shapes, offsets, pc, args, reg_ret, shape_ret, slice_ret, parse_ret,
          rule, rule_args, rule_ret, objs, list_args, list_ret,
          target, reference, phys_args, phys_ret>>

\* Fixed-point scale: tenths of a pixel, so that 0.5 and 1.9 are both exact.
Unit == 2 * 5
Half == Unit \div 2

-----------------------------------------------------------------------------
\* Bounds of the explored inputs.
MaxImages == 2
MaxShape == 3
MaxOff == 1
\* the largest index written in a section string
MaxIndex == 3
\* the widest bezel, the most axes of an image, the longest list given to listify
MaxBezel == 4
MaxNdim == 3
MaxLen == 2

-----------------------------------------------------------------------------
\* Generic helpers.

RECURSIVE Reverse(_)
Reverse(s) == IF s = <<>> THEN <<>> ELSE Append(Reverse(Tail(s)), Head(s))

SetMax(S) == CHOOSE x \in S : \A y \in S : y <= x
SetMin(S) == CHOOSE x \in S : \A y \in S : x <= y

NoneVal == [some |-> FALSE, v |-> 0]
Some(x) == [some |-> TRUE, v |-> x]
MkSlice(a, b, c) == [start |-> a, stop |-> b, step |-> c]

\* numpy.around followed by astype(int): round half to even, result in pixels.
Around(v) ==
  LET q == v \div Unit
      r == v % Unit
  IN  IF 2 * r < Unit THEN q
      ELSE IF 2 * r > Unit THEN q + 1
      ELSE IF q % 2 = 0 THEN q ELSE q + 1

\* Array helpers (numpy).
NRows(m) == Len(m)
NCols(m) == IF m = <<>> THEN 0 ELSE Len(m[1])
AtLeast2d_Squeeze(a) == [ndim |-> 2, rows |-> a.rows]
AtLeast2d(a) == IF a.ndim < 2 THEN [ndim |-> 2, rows |-> a.rows] ELSE a
FlipLast_Keep(a) == a
FlipLast(a) == [ndim |-> a.ndim, rows |-> [i \in 1..NRows(a.rows) |-> Reverse(a.rows[i])]]
ArrayShape(a) ==
  IF a.ndim = 3 THEN <<1, NRows(a.rows), NCols(a.rows)>>
  ELSE <<NRows(a.rows), NCols(a.rows)>>
ColMin(m, ax) == SetMin({m[i][ax] : i \in 1..NRows(m)})
ColMax(m, ax) == SetMax({m[i][ax] : i \in 1..NRows(m)})

-----------------------------------------------------------------------------
\* offset.py: regularize_offsets

\* _offsets - np.min(_offsets, axis=0).  For a 3-d array (1 x n x D) axis 0
\* has length one, so every entry is its own minimum.
SubtractMin0_RowMin(a) ==
  [ndim |-> a.ndim,
   rows |-> [i \in 1..NRows(a.rows) |->
               [ax \in 1..NCols(a.rows) |->
                  a.rows[i][ax] - SetMin({a.rows[i][k] : k \in 1..NCols(a.rows)})]]]

SubtractMin0(a) ==
  [ndim |-> a.ndim,
   rows |-> [i \in 1..NRows(a.rows) |->
               [ax \in 1..NCols(a.rows) |->
                  IF a.ndim = 3 THEN 0
                  ELSE a.rows[i][ax] - ColMin(a.rows, ax)]]]

AroundArray(a) ==
  [ndim |-> a.ndim,
   rows |-> [i \in 1..NRows(a.rows) |->
               [ax \in 1..NCols(a.rows) |-> Around(a.rows[i][ax]) * Unit]]]

regularize_offsets(offs, offset_order_xyz, intify_offsets) ==
  LET a2  == AtLeast2d(offs)
      fl  == IF offset_order_xyz THEN FlipLast(a2) ELSE a2
      sub == SubtractMin0(fl)
  IN  IF intify_offsets THEN AroundArray(sub) ELSE sub

-----------------------------------------------------------------------------
\* offset.py: offseted_shape.  shapes and offsets are n x D matrices of the
\* same dimensions (the documented input).  The result is the pair
\* (_offsets, shape_out), or an error without any result.

NoShape == [err |-> "none", offsets |-> <<>>, shape |-> <<>>]
ShapeError(e) == [err |-> e, offsets |-> <<>>, shape |-> <<>>]

\* np.array(shapes) + _offsets, entry by entry (fixed point).
ShapesPlusOffsets(shp, off) ==
  [i \in 1..NRows(off) |-> [ax \in 1..NCols(off) |-> shp[i][ax] * Unit + off[i][ax]]]

OuterShape_NoAround(shp, off) ==
  [ax \in 1..NCols(off) |-> ColMax(ShapesPlusOffsets(shp, off), ax) \div Unit]

OuterShape(shp, off) ==
  [ax \in 1..NCols(off) |-> Around(ColMax(ShapesPlusOffsets(shp, off), ax))]

InnerNpix_SignSlip(shp, off) ==
  [ax \in 1..NCols(off) |->
     ColMin(ShapesPlusOffsets(shp, off), ax) + ColMax(off, ax)]

InnerNpix(shp, off) ==
  [ax \in 1..NCols(off) |->
     ColMin(ShapesPlusOffsets(shp, off), ax) - ColMax(off, ax)]

ShapeNoOverlap_OrEmpty(npix) == \E ax \in 1..Len(npix) : npix[ax] <= 0

\* np.any(npix < 0)
ShapeNoOverlap(npix) == \E ax \in 1..Len(npix) : npix[ax] < 0

offseted_shape(shp, offs, method, offset_order_xyz, intify_offsets, pythonize_offsets) ==
  LET _offsets == regularize_offsets(offs, offset_order_xyz, intify_offsets)
      off      == _offsets.rows
      npix     == InnerNpix(shp.rows, off)
      back     == IF offset_order_xyz /\ ~pythonize_offsets
                  THEN FlipLast(_offsets).rows ELSE off
  IN  IF method = "outer"
      THEN [err |-> "none", offsets |-> back, shape |-> OuterShape(shp.rows, off)]
      ELSE IF method = "inner"
      THEN IF ShapeNoOverlap(npix)
           THEN ShapeError("ValueError")
           ELSE [err |-> "none", offsets |-> back,
                 shape |-> [ax \in 1..NCols(off) |-> Around(npix[ax])]]
      ELSE ShapeError("ValueError")

-----------------------------------------------------------------------------
\* Text: decimal rendering and parsing of integers.

Digits == <<"0", "1", "2", "3", "4", "5", "6", "7", "8", "9">>
DigitChars == {Digits[k] : k \in 1..Len(Digits)}
DigitVal(c) == (CHOOSE k \in 1..Len(Digits) : Digits[k] = c) - 1

RECURSIVE FmtNat(_)
FmtNat(n) == IF n < Len(Digits) THEN <<Digits[n + 1]>>
             ELSE Append(FmtNat(n \div Len(Digits)), Digits[(n % Len(Digits)) + 1])

\* format(n, "d")
FmtInt(n) == IF n < 0 THEN <<"-">> \o FmtNat(-n) ELSE FmtNat(n)

RECURSIVE Join(_, _)
Join(parts, sep) ==
  IF parts = <<>> THEN <<>>
  ELSE IF Len(parts) = 1 THEN parts[1]
  ELSE parts[1] \o sep \o Join(Tail(parts), sep)

-----------------------------------------------------------------------------
\* offset.py: offsets2slice.  The result is a list with one entry per image:
\* a list of slice objects (slices), or one string per image (strs) when
\* fits_convention is set; or an error without any result.

SliceError(e) == [err |-> e, slices |-> <<>>, strs |-> <<>>]
NoSlices == SliceError("none")

\* _initial_tmp(i), i counted from 0
InitialTmpSlices(i, method, outer_for_stack) ==
  IF method = "outer" /\ outer_for_stack
  THEN <<MkSlice(Some(i), Some(i + 1), NoneVal)>> ELSE <<>>
InitialTmpStrs(i, method, outer_for_stack) ==
  IF method = "outer" /\ outer_for_stack
  THEN <<FmtInt(i + 1) \o <<":">> \o FmtInt(i + 1)>> ELSE <<>>

\* starts and stops in whole pixels; off is the intified offset matrix.
OuterStarts(shp, off) ==
  [i \in 1..NRows(off) |-> [ax \in 1..NCols(off) |-> off[i][ax] \div Unit]]
OuterStops_Inclusive(shp, off) ==
  [i \in 1..NRows(off) |-> [ax \in 1..NCols(off) |-> off[i][ax] \div Unit + shp[i][ax] - 1]]
OuterStops(shp, off) ==
  [i \in 1..NRows(off) |-> [ax \in 1..NCols(off) |-> off[i][ax] \div Unit + shp[i][ax]]]
InnerStarts(shp, off) ==
  [i \in 1..NRows(off) |->
     [ax \in 1..NCols(off) |-> (ColMax(off, ax) - off[i][ax]) \div Unit]]
InnerStops(shp, off) ==
  [i \in 1..NRows(off) |->
     [ax \in 1..NCols(off) |->
        (ColMin(ShapesPlusOffsets(shp, off), ax) - off[i][ax]) \div Unit]]

InnerNoOverlap_Negative(shp, off) ==
  \E ax \in 1..NCols(off) : ColMin(ShapesPlusOffsets(shp, off), ax) < ColMax(off, ax)

InnerNoOverlap(shp, off) ==
  \E ax \in 1..NCols(off) : ColMin(ShapesPlusOffsets(shp, off), ax) <= ColMax(off, ax)

RenderSlices(starts, stops, method, outer_for_stack) ==
  [i \in 1..Len(starts) |->
     InitialTmpSlices(i - 1, method, outer_for_stack)
     \o [ax \in 1..Len(starts[i]) |-> MkSlice(Some(starts[i][ax]), Some(stops[i][ax]), NoneVal)]]

RenderStrs_RowMajor(starts, stops, method, outer_for_stack) ==
  [i \in 1..Len(starts) |->
     LET tmp == InitialTmpStrs(i - 1, method, outer_for_stack)
                \o [ax \in 1..Len(starts[i]) |->
                      FmtInt(starts[i][ax] + 1) \o <<":">> \o FmtInt(stops[i][ax])]
     IN  <<"[">> \o Join(tmp, <<",">>) \o <<"]">>]

RenderStrs(starts, stops, method, outer_for_stack) ==
  [i \in 1..Len(starts) |->
     LET tmp == InitialTmpStrs(i - 1, method, outer_for_stack)
                \o [ax \in 1..Len(starts[i]) |->
                      FmtInt(starts[i][ax] + 1) \o <<":">> \o FmtInt(stops[i][ax])]
     IN  <<"[">> \o Join(Reverse(tmp), <<",">>) \o <<"]">>]

offsets2slice(shp, offs, method, shape_order_xyz, offset_order_xyz, outer_for_stack, fits_convention) ==
  LET s2       == AtLeast2d(shp)
      _shapes  == IF shape_order_xyz THEN FlipLast(s2) ELSE s2
      _offsets == regularize_offsets(offs, offset_order_xyz, TRUE)
      sh       == _shapes.rows
      off      == _offsets.rows
      starts   == IF method = "outer" THEN OuterStarts(sh, off) ELSE InnerStarts(sh, off)
      stops    == IF method = "outer" THEN OuterStops(sh, off) ELSE InnerStops(sh, off)
  IN  IF _shapes.ndim # 2 \/ _offsets.ndim # 2 THEN SliceError("ValueError")
      ELSE IF ArrayShape(_shapes) # ArrayShape(_offsets) THEN SliceError("ValueError")
      ELSE IF method \notin {"outer", "inner"} THEN SliceError("ValueError")
      ELSE IF method = "inner" /\ InnerNoOverlap(sh, off) THEN SliceError("ValueError")
      ELSE IF fits_convention
           THEN [err |-> "none", slices |-> <<>>,
                 strs |-> RenderStrs(starts, stops, method, outer_for_stack)]
           ELSE [err |-> "none", strs |-> <<>>,
                 slices |-> RenderSlices(starts, stops, method, outer_for_stack)]

-----------------------------------------------------------------------------
\* slices.py: slice_from_string and _defitsify_slice.

RECURSIVE RemoveChar(_, _)
RemoveChar(s, c) ==
  IF s = <<>> THEN <<>>
  ELSE IF Head(s) = c THEN RemoveChar(Tail(s), c)
  ELSE <<Head(s)>> \o RemoveChar(Tail(s), c)

StartsWith(s, p) == Len(s) >= Len(p) /\ SubSeq(s, 1, Len(p)) = p
EndsWith(s, p) == Len(s) >= Len(p) /\ SubSeq(s, Len(s) - Len(p) + 1, Len(s)) = p

\* str.strip(chars)
RECURSIVE LStrip(_, _)
LStrip(s, cs) == IF s # <<>> /\ Head(s) \in cs THEN LStrip(Tail(s), cs) ELSE s
Strip(s, cs) == Reverse(LStrip(Reverse(LStrip(s, cs)), cs))

\* str.replace(old, new): non-overlapping occurrences, left to right
RECURSIVE Replace(_, _, _)
Replace(s, old, new) ==
  IF s = <<>> THEN <<>>
  ELSE IF StartsWith(s, old) THEN new \o Replace(SubSeq(s, Len(old) + 1, Len(s)), old, new)
  ELSE <<Head(s)>> \o Replace(Tail(s), old, new)

\* str.split(sep) for a one-character separator: always at least one part
RECURSIVE Split(_, _)
Split(s, sep) ==
  IF \A k \in 1..Len(s) : s[k] # sep THEN <<s>>
  ELSE LET k == CHOOSE j \in 1..Len(s) : s[j] = sep /\ \A h \in 1..(j - 1) : s[h] # sep
       IN  <<SubSeq(s, 1, k - 1)>> \o Split(SubSeq(s, k + 1, Len(s)), sep)

\* int(text): an optional minus sign and at least one decimal digit
IsIntText(s) ==
  LET body == IF s # <<>> /\ Head(s) = "-" THEN Tail(s) ELSE s
  IN  body # <<>> /\ \A k \in 1..Len(body) : body[k] \in DigitChars

RECURSIVE ParseNat(_)
ParseNat(s) ==
  IF s = <<>> THEN 0
  ELSE ParseNat(SubSeq(s, 1, Len(s) - 1)) * Len(Digits) + DigitVal(s[Len(s)])

ParseInt(s) == IF Head(s) = "-" THEN 0 - ParseNat(Tail(s)) ELSE ParseNat(s)

\* int(arg) if arg else None
ParseArg(a) == IF a = <<>> THEN NoneVal ELSE Some(ParseInt(a))

\* slice(*slice_args)
SliceOfArgs(a) ==
  IF Len(a) = 1 THEN MkSlice(NoneVal, a[1], NoneVal)
  ELSE IF Len(a) = 2 THEN MkSlice(a[1], a[2], NoneVal)
  ELSE MkSlice(a[1], a[2], a[3])

ParseError(e) == [err |-> e, slices |-> <<>>]
NoParse == ParseError("none")

\* one slice of _defitsify_slice's loop
DefitsifyOne_StopLessOne(sl) ==
  LET new_start == IF sl.start.some THEN Some(sl.start.v - 1) ELSE NoneVal
      new_step  == IF sl.step.some THEN Some(0 - sl.step.v) ELSE Some(0 - 1)
      new_stop  == IF sl.stop.v = 1 THEN NoneVal ELSE Some(sl.stop.v - 1)
  IN  IF sl.start.some /\ sl.stop.some /\ sl.start.v > sl.stop.v
      THEN MkSlice(new_start, new_stop, new_step)
      ELSE MkSlice(new_start, sl.stop, sl.step)
DefitsifyOne(sl) ==
  LET new_start == IF sl.start.some THEN Some(sl.start.v - 1) ELSE NoneVal
      new_step  == IF sl.step.some THEN Some(0 - sl.step.v) ELSE Some(0 - 1)
      new_stop  == IF sl.stop.v = 1 THEN NoneVal ELSE Some(sl.stop.v - 2)
  IN  IF sl.start.some /\ sl.stop.some /\ sl.start.v > sl.stop.v
      THEN MkSlice(new_start, new_stop, new_step)
      ELSE MkSlice(new_start, sl.stop, sl.step)

DefitsifyFails_ZeroStart(sl) ==
  \/ sl.start.some /\ sl.start.v < 0
  \/ sl.stop.some /\ sl.stop.v < 0
DefitsifyFails(sl) ==
  \/ sl.start.some /\ sl.start.v - 1 < 0
  \/ sl.stop.some /\ sl.stop.v < 0

_defitsify_slice(slices) ==
  LET rev == Reverse(slices)
  IN  IF \E k \in 1..Len(rev) : DefitsifyFails(rev[k])
      THEN ParseError("ValueError")
      ELSE [err |-> "none", slices |-> [k \in 1..Len(rev) |-> DefitsifyOne(rev[k])]]

slice_from_string(string, fits_convention) ==
  LET no_space == RemoveChar(string, " ")
      inner    == Strip(no_space, {"[", "]"})
      wild     == IF fits_convention
                  THEN Replace(Replace(Replace(inner, <<"-", "*", ":">>, <<":", ":", "-">>),
                                       <<"-", "*">>, <<":", ":", "-", "1">>),
                               <<"*">>, <<":">>)
                  ELSE inner
      fields   == Split(wild, ",")
      argtexts == [k \in 1..Len(fields) |-> Split(fields[k], ":")]
      \* the error of field k: int() of its arguments runs before slice(*args)
      FieldErr(k) ==
        IF \E j \in 1..Len(argtexts[k]) :
             argtexts[k][j] # <<>> /\ ~IsIntText(argtexts[k][j])
        THEN "ValueError"
        ELSE IF Len(argtexts[k]) > 3 THEN "TypeError" ELSE "none"
      bad      == {k \in 1..Len(fields) : FieldErr(k) # "none"}
      python   == [k \in 1..Len(fields) |->
                     SliceOfArgs([j \in 1..Len(argtexts[k]) |-> ParseArg(argtexts[k][j])])]
  IN  IF no_space = <<>> THEN [err |-> "none", slices |-> <<>>]
      ELSE IF ~(StartsWith(no_space, <<"[">>) /\ EndsWith(no_space, <<"]">>))
      THEN ParseError("ValueError")
      ELSE IF bad # {} THEN ParseError(FieldErr(SetMin(bad)))
      ELSE IF fits_convention THEN _defitsify_slice(python)
      ELSE [err |-> "none", slices |-> python]

-----------------------------------------------------------------------------
\* list.py: Python values, is_list_like, listify and ndfy.

\* A Python value: None, an int, a float, a str (its characters in s), a slice
\* (in sl) or a list or tuple (its elements in items).
NullSlice == MkSlice(NoneVal, NoneVal, NoneVal)
PyNone == [t |-> "none", n |-> 0, s |-> <<>>, sl |-> NullSlice, items |-> <<>>]
PyInt(n) == [PyNone EXCEPT !.t = "int", !.n = n]
PyFloat(n) == [PyNone EXCEPT !.t = "float", !.n = n]
PyStr(s) == [PyNone EXCEPT !.t = "str", !.s = s]
PySlice(sl) == [PyNone EXCEPT !.t = "slice", !.sl = sl]
PyList(items) == [PyNone EXCEPT !.t = "list", !.items = items]

\* a result: the exception raised ("none" if none) and the value returned
Raise(e) == [err |-> e, val |-> PyNone]
Return(v) == [err |-> "none", val |-> v]

\* is_list_like(obj): an iterable that is not a string
is_list_like(obj) == obj.t = "list"

\* seq * n
RECURSIVE Times(_, _)
Times(seq, n) == IF n <= 0 THEN <<>> ELSE seq \o Times(seq, n - 1)

\* len(obj) for the values that have one
HasLen(obj) == obj.t \in {"list", "str"}
PyLen(obj) == IF obj.t = "list" THEN Len(obj.items) ELSE Len(obj.s)

_listify_single_Wrap(obj, scalar2list, none2list) ==
  IF obj.t = "none" THEN (IF none2list THEN PyList(<<obj>>) ELSE PyList(<<>>))
  ELSE PyList(<<obj>>)
_listify_single(obj, scalar2list, none2list) ==
  IF obj.t = "none" THEN (IF none2list THEN PyList(<<obj>>) ELSE PyList(<<>>))
  ELSE IF is_list_like(obj) THEN PyList(obj.items)
  ELSE IF scalar2list THEN PyList(<<obj>>) ELSE obj

\* obj*length if len(obj) == 1 else obj
Lengthen_Keep(obj, length) == obj
Lengthen(obj, length) ==
  IF PyLen(obj) # 1 THEN obj
  ELSE IF obj.t = "list" THEN PyList(Times(obj.items, length))
  ELSE PyStr(Times(obj.s, length))

\* the length check of listify: some input is neither of length 1 nor the longest
BadLength(objlists, length) ==
  \E k \in 1..Len(objlists) : PyLen(objlists[k]) \notin {1, length}

listify(objects, scalar2list, none2list) ==
  LET objlists == [k \in 1..Len(objects) |-> _listify_single(objects[k], scalar2list, TRUE)]
      length   == SetMax({PyLen(objlists[k]) : k \in 1..Len(objlists)})
  IN  IF Len(objects) = 1 THEN Return(_listify_single(objects[1], scalar2list, none2list))
      ELSE IF \E k \in 1..Len(objlists) : ~HasLen(objlists[k]) THEN Raise("TypeError")
      ELSE IF objlists = <<>> THEN Raise("ValueError")
      ELSE IF BadLength(objlists, length) THEN Raise("ValueError")
      ELSE Return(PyList([k \in 1..Len(objlists) |-> Lengthen(objlists[k], length)]))

\* [default if i is None else i for i in item]
FillDefault(items, default) ==
  [k \in 1..Len(items) |-> IF items[k].t = "none" THEN default ELSE items[k]]

ndfy(item, length, default) ==
  LET filled == FillDefault(listify(<<item>>, TRUE, FALSE).val.items, default)
  IN  IF ~length.some \/ Len(filled) = length.v THEN Return(PyList(filled))
      ELSE IF Len(filled) # 1 THEN Raise("ValueError")
      ELSE Return(PyList([k \in 1..length.v |-> filled[1]]))

\* lists.py: ndfy, which reduces the item with listify(item, none2list=True)
lists_ndfy(item, length, default) ==
  LET filled == FillDefault(listify(<<item>>, TRUE, TRUE).val.items, default)
  IN  IF ~length.some \/ Len(filled) = length.v THEN Return(PyList(filled))
      ELSE IF Len(filled) # 1 THEN Raise("ValueError")
      ELSE Return(PyList(Times(filled, length.v)))

-----------------------------------------------------------------------------
\* slices.py: bezel2slice and slicefy.

\* a result of tuple of slices, or the exception raised
RuleError(e) == [err |-> e, slices |-> <<>>]

\* np.atleast_2d(bezels) for a scalar, a list of scalars or a list of lists of
\* scalars: the rows of the array; a ragged list is not an array
IsScalar(v) == v.t # "list"
IsVector(v) == v.t = "list" /\ \A k \in 1..Len(v.items) : IsScalar(v.items[k])
IsRagged(v) ==
  /\ v.t = "list" /\ ~IsVector(v)
  /\ \/ \E k \in 1..Len(v.items) : ~IsVector(v.items[k])
     \/ \E j \in 1..Len(v.items), k \in 1..Len(v.items) :
          Len(v.items[j].items) # Len(v.items[k].items)
BezelRows(v) ==
  IF IsScalar(v) THEN <<<<v>>>>
  ELSE IF IsVector(v) THEN <<v.items>>
  ELSE [k \in 1..Len(v.items) |-> v.items[k].items]

\* -b[1] fails: the array holds strings (one string entry makes every entry a
\* string) or some b[1] is None
NoNegative(rows) ==
  \/ \E j \in 1..Len(rows) : \E k \in 1..Len(rows[j]) : rows[j][k].t = "str"
  \/ \E j \in 1..Len(rows) : rows[j][2].t # "int"

\* slice(b[0], None if b[1] == 0 else -b[1])
BezelSlice_NegativeZero(b) == MkSlice(Some(b[1].n), Some(0 - b[2].n), NoneVal)
BezelSlice(b) ==
  MkSlice(IF b[1].t = "none" THEN NoneVal ELSE Some(b[1].n),
          IF b[2].n = 0 THEN NoneVal ELSE Some(0 - b[2].n), NoneVal)

\* bezels[::-1] if order_xyz else bezels
BezelOrder_Keep(rows, order_xyz) == rows
BezelOrder(rows, order_xyz) == IF order_xyz THEN Reverse(rows) ELSE rows

\* bezel2slice for bezels of integers or strings
bezel2slice(bezels, order_xyz) ==
  LET rows == BezelOrder(BezelRows(bezels), order_xyz)
  IN  IF IsRagged(bezels) THEN RuleError("ValueError")
      ELSE IF rows = <<>> THEN [err |-> "none", slices |-> <<>>]
      ELSE IF Len(rows[1]) < 2 THEN RuleError("IndexError")
      ELSE IF NoNegative(rows) THEN RuleError("TypeError")
      ELSE [err |-> "none", slices |-> [k \in 1..Len(rows) |-> BezelSlice(rows[k])]]

\* the elements of a tuple of slices as Python values
AsValues(slices) == [k \in 1..Len(slices) |-> PySlice(slices[k])]

\* ndfy(rule, ndim) as a result of slicefy
NdfyRule(rul, ndim) ==
  LET r == ndfy(rul, Some(ndim), PyInt(0))
  IN  [err |-> r.err, slices |-> r.val.items]

\* [ndfy(b, 2, default=0) for b in listify(rule)]
BezelPairs(rul) ==
  LET each == listify(<<rul>>, TRUE, FALSE).val.items
  IN  [k \in 1..Len(each) |-> ndfy(each[k], Some(2), PyInt(0))]

\* the bezel branch of slicefy
BezelRule(rul, ndim, order_xyz) ==
  LET pairs  == BezelPairs(rul)
      bezels == ndfy(PyList([k \in 1..Len(pairs) |-> pairs[k].val]), Some(ndim), PyInt(0))
      sl     == bezel2slice(bezels.val, order_xyz)
  IN  IF \E k \in 1..Len(pairs) : pairs[k].err # "none" THEN RuleError("ValueError")
      ELSE IF bezels.err # "none" THEN RuleError(bezels.err)
      ELSE [err |-> sl.err, slices |-> AsValues(sl.slices)]

\* the string branch of slicefy: np.atleast_1d(rule) holds the one string
SectionRule(rul) ==
  LET fs == <<rul.s>>
      sl == [k \in 1..Len(fs) |-> slice_from_string(fs[k], TRUE)]
  IN  IF \E k \in 1..Len(sl) : sl[k].err # "none"
      THEN RuleError(sl[CHOOSE k \in 1..Len(sl) : sl[k].err # "none"].err)
      ELSE IF Len(sl) = 1 THEN [err |-> "none", slices |-> AsValues(sl[1].slices)]
      ELSE [err |-> "none", slices |-> [k \in 1..Len(sl) |-> PyList(AsValues(sl[k].slices))]]

slicefy(rul, ndim, order_xyz) ==
  IF rul.t = "none" THEN [err |-> "none", slices |-> [k \in 1..ndim |-> PySlice(NullSlice)]]
  ELSE IF rul.t = "str" THEN SectionRule(rul)
  ELSE IF is_list_like(rul)
       THEN IF rul.items = <<>> THEN RuleError("IndexError")
            ELSE IF rul.items[1].t = "slice" THEN NdfyRule(rul, ndim)
            ELSE BezelRule(rul, ndim, order_xyz)
  ELSE IF rul.t = "slice" THEN NdfyRule(rul, ndim)
  ELSE IF rul.t = "int" THEN BezelRule(rul, ndim, order_xyz)
  ELSE RuleError("TypeError")

-----------------------------------------------------------------------------
\* offset.py: calc_offset_physical.  A header is a list of cards, each a
\* keyword and a value (in tenths, NAXIS excepted); the other arguments a
\* caller may pass are None and a string.

Card(key, value) == [key |-> key, value |-> value]
Header(cards) == [kind |-> "Header", cards |-> cards]
NoHeader == [kind |-> "None", cards |-> <<>>]
NotHeader == [kind |-> "str", cards |-> <<>>]

\* hdr[key], which raises KeyError when no card has the keyword
HasKey(hdr, key) == \E k \in 1..Len(hdr.cards) : hdr.cards[k].key = key
Lookup(hdr, key) ==
  hdr.cards[SetMin({k \in 1..Len(hdr.cards) : hdr.cards[k].key = key})].value

\* the keywords the function asks for: "NAXIS", f"LTV{i + 1}", and the plain
\* strings "LTM{i}_{j}" and "LTM{i}", which are not formatted
NaxisKey == <<"N", "A", "X", "I", "S">>
LtvKey(i) == <<"L", "T", "V">> \o FmtInt(i + 1)
LtmKeyIJ(i, j) == <<"L", "T", "M", "{", "i", "}", "_", "{", "j", "}">>
LtmKeyI(i) == <<"L", "T", "M", "{", "i", "}">>

\* the assertions of _check_ltm(hdr), the second of which reads the target
CheckLtmFails(hdr, tgt) ==
  \E i \in 0..(Lookup(hdr, NaxisKey) - 1) :
    \/ \E j \in 0..(Lookup(hdr, NaxisKey) - 1) :
         /\ HasKey(hdr, LtmKeyIJ(i, j))
         /\ Lookup(hdr, LtmKeyIJ(i, j)) # (IF i = j THEN Unit ELSE 0)
    \/ HasKey(tgt, LtmKeyI(i)) /\ Lookup(tgt, LtmKeyI(i)) # Unit

\* the LTV values of a header for ndim axes, 0 for a missing keyword
Ltvs(hdr, ndim) ==
  [k \in 1..ndim |-> IF HasKey(hdr, LtvKey(k - 1)) THEN Lookup(hdr, LtvKey(k - 1)) ELSE 0]

PhysError(e) == [err |-> e, offset |-> <<>>]

calc_offset_physical(tgt, ref, order_xyz, ignore_nondiag_ltm, intify_offset) ==
  LET do_ref   == ref.kind # "None"
      ndim     == Lookup(tgt, NaxisKey)
      ltvs_obj == Ltvs(tgt, ndim)
      ltvs_ref == Ltvs(ref, ndim)
      diff     == IF do_ref THEN [k \in 1..ndim |-> ltvs_obj[k] - ltvs_ref[k]] ELSE ltvs_obj
      offset   == IF intify_offset THEN [k \in 1..ndim |-> Around(diff[k]) * Unit] ELSE diff
  IN  IF tgt.kind # "Header" THEN PhysError("TypeError")
      ELSE IF do_ref /\ ref.kind # "Header" THEN PhysError("TypeError")
      ELSE IF ~HasKey(tgt, NaxisKey) THEN PhysError("KeyError")
      ELSE IF ~ignore_nondiag_ltm /\ CheckLtmFails(tgt, tgt) THEN PhysError("NotImplementedError")
      ELSE IF ~ignore_nondiag_ltm /\ do_ref /\ ~HasKey(ref, NaxisKey) THEN PhysError("KeyError")
      ELSE IF ~ignore_nondiag_ltm /\ do_ref /\ CheckLtmFails(ref, tgt)
           THEN PhysError("NotImplementedError")
      ELSE [err |-> "none", offset |-> IF order_xyz THEN offset ELSE Reverse(offset)]

-----------------------------------------------------------------------------
\* Inputs.

Matrices(n, d, S) == [1..n -> [1..d -> S]]
Matrix(rows) == [ndim |-> 2, rows |-> rows]
Filled(n, d, x) == [i \in 1..n |-> [ax \in 1..d |-> x]]

\* Offsets -1, 0 and MaxOff - 0.5 pixels; shapes 0, 1 and MaxShape pixels.
OffVals == {0 - Unit, 0, MaxOff * Unit - Half}
ShapeVals == {0, 1, MaxShape}
Methods == {"outer", "inner", "invalid"}

\* Image counts and axis counts: two axes for up to two images, one axis beyond.
Sizes == {<<n, d>> \in (1..MaxImages) \X {1, 2} : n > 2 => d = 1}

\* The inputs of tests/test_offset.py (offsets 1, -1, 1.9 in fixed point).
TestOffsets == <<<<Unit, Unit>>, <<0 - Unit, Unit>>, <<2 * Unit - 1, 0>>>>
TestShapesSquare == <<<<Unit, Unit>>, <<Unit, Unit>>, <<Unit, Unit>>>>
TestShapes == <<<<Unit, Unit + Half>>, <<Unit, Unit>>, <<Unit, Unit>>>>
TestOffsets3 == <<<<0, 0, 0>>, <<0, Unit, 2 * Unit>>, <<Unit, Unit + Half, Unit>>>>

DefaultArgs ==
  [method |-> "outer", shape_order_xyz |-> FALSE, offset_order_xyz |-> TRUE,
   intify_offsets |-> FALSE, pythonize_offsets |-> TRUE,
   outer_for_stack |-> TRUE, fits_convention |-> FALSE]

\* default values of the keyword arguments of slice_from_string and slicefy
DefaultRuleArgs == [fits_convention |-> FALSE, ndim |-> 2, order_xyz |-> TRUE]

\* no call of slices.py or of list.py is under way
InitRuleIdle ==
  /\ rule = PyNone
  /\ rule_args = DefaultRuleArgs
  /\ rule_ret = RuleError("none")
\* default values of the keyword arguments of listify and of list.py's ndfy
DefaultListArgs ==
  [scalar2list |-> TRUE, none2list |-> FALSE, length |-> NoneVal, default |-> PyInt(0)]
InitListIdle ==
  /\ objs = <<>>
  /\ list_args = DefaultListArgs
  /\ list_ret = Return(PyNone)

\* default values of the keyword arguments of calc_offset_physical
DefaultPhysArgs == [order_xyz |-> TRUE, ignore_nondiag_ltm |-> TRUE, intify_offset |-> FALSE]

\* no call of calc_offset_physical is under way
InitPhysIdle ==
  /\ target = NoHeader
  /\ reference = NoHeader
  /\ phys_args = DefaultPhysArgs
  /\ phys_ret = PhysError("none")

InitRest ==
  /\ pc = "ready"
  /\ args = DefaultArgs
  /\ reg_ret = Matrix(<<>>)
  /\ shape_ret = NoShape
  /\ slice_ret = NoSlices
  /\ parse_ret = [image |-> 0, res |-> NoParse]
  /\ InitRuleIdle
  /\ InitListIdle
  /\ InitPhysIdle

\* n x D shapes and n x D offsets
InitMatrices ==
  \E sz \in Sizes :
    /\ shapes \in {Matrix(m) : m \in Matrices(sz[1], sz[2], ShapeVals)}
    /\ offsets \in {Matrix(m) : m \in Matrices(sz[1], sz[2], OffVals)}

InitTests ==
  /\ shapes \in {Matrix(TestShapesSquare), Matrix(TestShapes)}
  /\ offsets = Matrix(TestOffsets)

\* Offsets alone: a matrix or a single vector; the shapes play no part.
InitOffsets ==
  \/ \E sz \in Sizes, nd \in {1, 2} :
       /\ nd = 1 => sz[1] = 1
       /\ offsets \in {[ndim |-> nd, rows |-> m] : m \in Matrices(sz[1], sz[2], OffVals)}
       /\ shapes = Matrix(Filled(sz[1], sz[2], 1))
  \/ /\ offsets \in {Matrix(TestOffsets), Matrix(TestOffsets3)}
     /\ shapes = Matrix(Filled(Len(offsets.rows), Len(offsets.rows[1]), 1))

\* Arguments of any nesting depth and of unrelated dimensions.
InitAnyArrays ==
  \E ssz \in Sizes, osz \in Sizes, snd \in 1..3, ond \in 1..3 :
    /\ snd = 1 => ssz[1] = 1
    /\ ond = 1 => osz[1] = 1
    /\ shapes = [ndim |-> snd, rows |-> Filled(ssz[1], ssz[2], MaxShape)]
    /\ offsets \in {[ndim |-> ond, rows |-> Filled(osz[1], osz[2], x)] : x \in OffVals}

\* no call of offset.py is under way
InitOffIdle ==
  /\ shapes = Matrix(<<>>)
  /\ offsets = Matrix(<<>>)
  /\ pc = "ready"
  /\ args = DefaultArgs
  /\ reg_ret = Matrix(<<>>)
  /\ shape_ret = NoShape
  /\ slice_ret = NoSlices
  /\ parse_ret = [image |-> 0, res |-> NoParse]

\* Section strings: one or two fields start:stop or start:stop:step with bounds
\* from -1 to MaxIndex or left out, and the wildcard fields.
IndexTexts == {<<>>} \cup {FmtInt(n) : n \in (0 - 1)..MaxIndex}
StepTexts == {<<>>, FmtInt(2), FmtInt(0 - 1)}
FieldTexts ==
  {a \o <<":">> \o b : a \in IndexTexts, b \in IndexTexts}
  \cup {a \o <<":">> \o b \o <<":">> \o c : a \in IndexTexts, b \in IndexTexts, c \in StepTexts}
  \cup {<<"*">>, <<"-", "*">>, <<"-", "*", ":", "2">>}
FieldCounts == {1, 2}
Bracket(fields) == <<"[">> \o Join(fields, <<",">>) \o <<"]">>
Sections == {Bracket(fs) : fs \in UNION {[1..n -> FieldTexts] : n \in FieldCounts}}

\* The strings of tests/test_slices.py, and the slices of test_defitsify_slice
\* written as sections.
Field2(a, b) == FmtInt(a) \o <<":">> \o FmtInt(b)
Field3(a, b, c) == Field2(a, b) \o <<":">> \o FmtInt(c)
TestSections ==
  { Bracket(<<Field2(2, 5)>>),
    <<"[", " ", ":", " ", ":", " ", "-", "2", "]", " ">>,
    <<"[">> \o Field2(1, 0 - 1) \o <<",", " ">> \o Field3(0, 4, 2) \o <<"]">>,
    Bracket(<<Field2(0, 2), Field2(0, 3)>>),
    <<"[">> \o Field2(1, 3) \o <<",", " ">> \o Field2(1, 2) \o <<"]">>,
    <<>>,
    Field2(1, 2),
    Bracket(<<Field2(1, Unit)>>),
    Bracket(<<Field3(1, Unit, 2)>>),
    Bracket(<<Field2(Unit * Unit, Unit)>>),
    Bracket(<<Field2(0 - 1, Unit)>>),
    Bracket(<<Field2(Unit, 0 - 1)>>),
    Bracket(<<Field2(1, 2), <<":">>>>) }

\* Strings that are no sections: a letter for a bound, four arguments.
BadSections ==
  { Bracket(<<<<"a", ":", "2">>>>),
    Bracket(<<Field2(1, 2), Field3(1, 2, 3) \o <<":", "4">>>>) }

InitSections ==
  /\ rule \in {PyStr(x) : x \in Sections \cup TestSections \cup BadSections}
  /\ rule_args = DefaultRuleArgs
  /\ rule_ret = RuleError("none")

\* Bezels: widths 0, MaxBezel - 1 and MaxBezel, bare, in a list, or in
\* [lower, upper] pairs, one pair per axis.
BezelVals == {0, MaxBezel - 1, MaxBezel}
Lists(S, lens) == {PyList(x) : x \in UNION {[1..n -> S] : n \in lens}}
BareWidths == {PyInt(n) : n \in BezelVals} \cup Lists({PyInt(n) : n \in BezelVals}, {1, 2})
BezelPairLists(lens) == Lists(Lists({PyInt(n) : n \in BezelVals}, {2}), lens)

InitBezels ==
  /\ rule \in BareWidths \cup BezelPairLists(1..MaxNdim)
  /\ rule_args = DefaultRuleArgs
  /\ rule_ret = RuleError("none")

\* Rules of slicefy: None, a float, section strings, integers, lists of integers
\* of up to MaxNdim + 1 entries, lists of pairs, slices, lists of slices, lists
\* of section strings.
SliceVals ==
  { MkSlice(Some(1), Some(0 - 1), Some(2)), NullSlice, MkSlice(Some(0), Some(MaxBezel), NoneVal) }
RuleSections ==
  { Bracket(<<Field2(1, 2), <<":">>>>), Bracket(<<Field2(1, 3)>>),
    Bracket(<<Field2(2, 1), Field2(1, 2), <<"*">>>>) }
Rules ==
  {PyNone, PyFloat(1)}
  \cup {PyStr(x) : x \in TestSections \cup BadSections \cup RuleSections}
  \cup {PyInt(n) : n \in BezelVals}
  \cup Lists({PyInt(n) : n \in BezelVals}, 0..(MaxNdim + 1))
  \cup BezelPairLists({1, 2})
  \cup {PySlice(x) : x \in SliceVals}
  \cup Lists({PySlice(x) : x \in SliceVals}, 1..(MaxNdim + 1))
  \cup Lists({PyStr(x) : x \in RuleSections}, {1, 2})

InitRules ==
  /\ rule \in Rules
  /\ rule_args = DefaultRuleArgs
  /\ rule_ret = RuleError("none")

\* Inputs of listify: None, an integer, a string, and lists of up to MaxLen of
\* them; one to three inputs, and the inputs of tests/test_list.py.
Atoms == {PyNone, PyInt(1), PyStr(<<"a">>)}
Objects == Atoms \cup Lists(Atoms, 0..MaxLen)
InputCounts == {1, 2, 3}
TestObjects ==
  { <<PyList(<<PyInt(1), PyInt(2)>>), PyStr(<<"a">>), PyNone>>,
    <<PyList(<<PyInt(1), PyInt(2)>>), PyStr(<<"a">>)>>,
    <<PyList(<<PyInt(1), PyInt(2)>>), PyStr(<<"a">>), PyList(<<PyInt(3), PyInt(4), PyInt(5)>>)>>,
    <<PyStr(<<"a", "b">>)>> }

InitObjects ==
  /\ objs \in UNION {[1..n -> Objects] : n \in InputCounts} \cup TestObjects
  /\ list_args = DefaultListArgs
  /\ list_ret = Return(PyNone)

\* Inputs of calc_offset_physical: two-dimensional headers with or without
\* LTV1 and LTV2, and with no LTM card, the identity matrix, a matrix with
\* off-diagonal terms, or the short keywords LTM1 and LTM2 (all ones, or a
\* scale of 3 on the second axis), which cover the headers of
\* tests/test_offset.py; and a target or a reference that is not a header.
LtmIJ(i, j) == <<"L", "T", "M">> \o FmtInt(i) \o <<"_">> \o FmtInt(j)
LtmI(i) == <<"L", "T", "M">> \o FmtInt(i)
LtmMatrix(a12, a21) ==
  << Card(LtmIJ(1, 1), Unit), Card(LtmIJ(1, 2), a12),
     Card(LtmIJ(2, 1), a21), Card(LtmIJ(2, 2), Unit) >>
LtmCards ==
  { <<>>, LtmMatrix(0, 0), LtmMatrix(3 * Unit, 2 * Unit),
    <<Card(LtmI(1), Unit), Card(LtmI(2), Unit)>>,
    <<Card(LtmI(1), Unit), Card(LtmI(2), 3 * Unit)>> }
Ltv1Cards == {<<>>, <<Card(LtvKey(0), 0)>>, <<Card(LtvKey(0), 0 - (9 * Unit + Half))>>}
Ltv2Cards == {<<>>, <<Card(LtvKey(1), 0 - 19 * Unit)>>, <<Card(LtvKey(1), 0 - (Unit + Half))>>}
Headers ==
  { Header(<<Card(NaxisKey, 2)>> \o v1 \o v2 \o m) :
      v1 \in Ltv1Cards, v2 \in Ltv2Cards, m \in LtmCards }

InitHeaders ==
  /\ target \in Headers \cup {NotHeader}
  /\ reference \in Headers \cup {NoHeader, NotHeader}
  /\ phys_args = DefaultPhysArgs
  /\ phys_ret = PhysError("none")

-----------------------------------------------------------------------------
\* Operations: one call of a public function on the inputs.

IsMatrixPair == shapes.ndim = 2 /\ offsets.ndim = 2 /\ ArrayShape(shapes) = ArrayShape(offsets)

CallRegularizeOffsets ==
  /\ pc = "ready"
  /\ \E xyz \in BOOLEAN, intify \in BOOLEAN :
       /\ args' = [DefaultArgs EXCEPT !.offset_order_xyz = xyz, !.intify_offsets = intify]
       /\ reg_ret' = regularize_offsets(offsets, xyz, intify)
  /\ pc' = "regularized"
  /\ UNCHANGED <<shapes, offsets, shape_ret, slice_ret, parse_ret>>
  /\ UNCHANGED <<rulevars, listvars, physvars>>

CallOffsetedShape ==
  /\ pc = "ready"
  /\ IsMatrixPair
  /\ \E m \in Methods, xyz \in BOOLEAN, intify \in BOOLEAN, py \in BOOLEAN :
       /\ args' = [DefaultArgs EXCEPT !.method = m, !.offset_order_xyz = xyz,
                                      !.intify_offsets = intify, !.pythonize_offsets = py]
       /\ shape_ret' = offseted_shape(shapes, offsets, m, xyz, intify, py)
  /\ pc' = "shaped"
  /\ UNCHANGED <<shapes, offsets, reg_ret, slice_ret, parse_ret>>
  /\ UNCHANGED <<rulevars, listvars, physvars>>

CallOffsets2Slice ==
  /\ pc = "ready"
  /\ \E m \in Methods, sxyz \in BOOLEAN, oxyz \in BOOLEAN, st \in BOOLEAN, fits \in BOOLEAN :
       /\ args' = [DefaultArgs EXCEPT !.method = m, !.shape_order_xyz = sxyz,
                                      !.offset_order_xyz = oxyz, !.outer_for_stack = st,
                                      !.fits_convention = fits]
       /\ slice_ret' = offsets2slice(shapes, offsets, m, sxyz, oxyz, st, fits)
  /\ pc' = "sliced"
  /\ UNCHANGED <<shapes, offsets, reg_ret, shape_ret, parse_ret>>
  /\ UNCHANGED <<rulevars, listvars, physvars>>

\* Reading back one of the section strings offsets2slice produced.
ParseSection ==
  /\ pc = "sliced"
  /\ slice_ret.err = "none"
  /\ args.fits_convention
  /\ \E i \in 1..Len(slice_ret.strs) :
       parse_ret' = [image |-> i, res |-> slice_from_string(slice_ret.strs[i], TRUE)]
  /\ pc' = "parsed"
  /\ UNCHANGED <<shapes, offsets, args, reg_ret, shape_ret, slice_ret>>
  /\ UNCHANGED <<rulevars, listvars, physvars>>

\* slice_from_string(string, fits_convention)
CallSliceFromString ==
  /\ pc = "ready"
  /\ rule.t = "str"
  /\ \E fits \in BOOLEAN :
       /\ rule_args' = [DefaultRuleArgs EXCEPT !.fits_convention = fits]
       /\ rule_ret' = slice_from_string(rule.s, fits)
  /\ pc' = "section read"
  /\ UNCHANGED <<rule, offvars, listvars, physvars>>

\* bezel2slice(bezels, order_xyz)
CallBezel2Slice ==
  /\ pc = "ready"
  /\ \E xyz \in BOOLEAN :
       /\ rule_args' = [DefaultRuleArgs EXCEPT !.order_xyz = xyz]
       /\ rule_ret' = bezel2slice(rule, xyz)
  /\ pc' = "bezelled"
  /\ UNCHANGED <<rule, offvars, listvars, physvars>>

\* slicefy(rule, ndim, order_xyz)
CallSlicefy ==
  /\ pc = "ready"
  /\ \E nd \in 1..MaxNdim, xyz \in BOOLEAN :
       /\ rule_args' = [DefaultRuleArgs EXCEPT !.ndim = nd, !.order_xyz = xyz]
       /\ rule_ret' = slicefy(rule, nd, xyz)
  /\ pc' = "slicefied"
  /\ UNCHANGED <<rule, offvars, listvars, physvars>>

\* listify(*objs, scalar2list, none2list)
CallListify ==
  /\ pc = "ready"
  /\ \E s2l \in BOOLEAN, n2l \in BOOLEAN :
       /\ list_args' = [DefaultListArgs EXCEPT !.scalar2list = s2l, !.none2list = n2l]
       /\ list_ret' = listify(objs, s2l, n2l)
  /\ pc' = "listified"
  /\ UNCHANGED <<objs, offvars, rulevars, physvars>>

\* the lengths and the defaults given to ndfy
Lengths == {NoneVal} \cup {Some(n) : n \in 1..(MaxLen + 1)}
Defaults == {PyNone, PyInt(0), PyInt(1)}

\* list.py: ndfy(item, length, default), the one slices.py imports
CallNdfy ==
  /\ pc = "ready"
  /\ Len(objs) = 1
  /\ \E len \in Lengths, dflt \in Defaults :
       /\ list_args' = [DefaultListArgs EXCEPT !.length = len, !.default = dflt]
       /\ list_ret' = ndfy(objs[1], len, dflt)
  /\ pc' = "ndfied"
  /\ UNCHANGED <<objs, offvars, rulevars, physvars>>

\* lists.py: ndfy(item, length, default)
CallListsNdfy ==
  /\ pc = "ready"
  /\ Len(objs) = 1
  /\ \E len \in Lengths, dflt \in Defaults :
       /\ list_args' = [DefaultListArgs EXCEPT !.length = len, !.default = dflt]
       /\ list_ret' = lists_ndfy(objs[1], len, dflt)
  /\ pc' = "lists ndfied"
  /\ UNCHANGED <<objs, offvars, rulevars, physvars>>

\* offset.py: calc_offset_physical(target, reference, order_xyz,
\* ignore_nondiag_ltm, intify_offset)
CallCalcOffsetPhysical ==
  /\ pc = "ready"
  /\ \E xyz \in BOOLEAN, ignore \in BOOLEAN, intify \in BOOLEAN :
       /\ phys_args' = [order_xyz |-> xyz, ignore_nondiag_ltm |-> ignore,
                        intify_offset |-> intify]
       /\ phys_ret' = calc_offset_physical(target, reference, xyz, ignore, intify)
  /\ pc' = "physical"
  /\ UNCHANGED <<target, reference, offvars, rulevars, listvars>>

\* Specification of regularize_offsets.
InitRegularize == InitOffsets /\ InitRest
NextRegularize == CallRegularizeOffsets
SpecRegularize == InitRegularize /\ [][NextRegularize]_vars

\* Specification of offseted_shape.
InitShape == (InitMatrices \/ InitTests) /\ InitRest
NextShape == CallOffsetedShape
SpecShape == InitShape /\ [][NextShape]_vars

\* Specification of offsets2slice and of reading its section strings back.
Init == (InitMatrices \/ InitTests \/ InitAnyArrays) /\ InitRest
Next == CallOffsets2Slice \/ ParseSection
Spec == Init /\ [][Next]_vars

\* Specification of offseted_shape and offsets2slice on the same images.
NextCombine == CallOffsetedShape \/ CallOffsets2Slice
SpecCombine == InitShape /\ [][NextCombine]_vars

\* Specification of slice_from_string.
InitSection == InitSections /\ InitOffIdle /\ InitListIdle /\ InitPhysIdle
NextSection == CallSliceFromString
SpecSection == InitSection /\ [][NextSection]_vars

\* Specification of bezel2slice.
InitBezel == InitBezels /\ InitOffIdle /\ InitListIdle /\ InitPhysIdle
NextBezel == CallBezel2Slice
SpecBezel == InitBezel /\ [][NextBezel]_vars

\* Specification of slicefy.
InitSlicefy == InitRules /\ InitOffIdle /\ InitListIdle /\ InitPhysIdle
NextSlicefy == CallSlicefy
SpecSlicefy == InitSlicefy /\ [][NextSlicefy]_vars

\* Specification of listify and ndfy.
InitList == InitObjects /\ InitOffIdle /\ InitRuleIdle /\ InitPhysIdle
NextList == CallListify \/ CallNdfy \/ CallListsNdfy
SpecList == InitList /\ [][NextList]_vars

\* Specification of calc_offset_physical.
InitPhysical ==
  InitHeaders /\ InitOffIdle /\ InitRuleIdle /\ InitListIdle
NextPhysical == CallCalcOffsetPhysical
SpecPhysical == InitPhysical /\ [][NextPhysical]_vars

-----------------------------------------------------------------------------
\* Reference values of the claims, taken from the raw arguments.

NImages == NRows(offsets.rows)
NAxes == NCols(offsets.rows)
Images == 1..NImages
Axes == 1..NAxes

\* the position of row-major axis ax in an offset (or shape) vector as given
SrcAxis(ax, xyz) == IF xyz THEN NAxes + 1 - ax ELSE ax

\* offset of image i on row-major axis ax, relative to the smallest one
RelOffset(i, ax, xyz) ==
  offsets.rows[i][SrcAxis(ax, xyz)]
  - SetMin({offsets.rows[j][SrcAxis(ax, xyz)] : j \in Images})

NormOffset(i, ax, xyz, intify) ==
  IF intify THEN Around(RelOffset(i, ax, xyz)) * Unit ELSE RelOffset(i, ax, xyz)

IsWhole(v) == v % Unit = 0
Abs(x) == IF x < 0 THEN 0 - x ELSE x

-----------------------------------------------------------------------------
\* C1: after regularize_offsets, for every flag setting, the minimum over the
\* images is exactly 0 on every axis: no entry is negative and some image has 0.
C1_ColumnMinimumIsZero ==
  pc = "regularized" =>
    /\ NRows(reg_ret.rows) = NImages /\ NCols(reg_ret.rows) = NAxes
    /\ \A ax \in Axes :
         /\ \A i \in Images : reg_ret.rows[i][ax] >= 0
         /\ \E i \in Images : reg_ret.rows[i][ax] = 0

\* C1 witness: a regularized matrix of several images whose raw columns all had
\* a non-zero minimum, with rounding and axis reversal requested.
C1_Witness ==
  /\ pc = "regularized" /\ args.intify_offsets /\ args.offset_order_xyz
  /\ NImages >= 2 /\ NAxes >= 2
  /\ \A ax \in Axes : ColMin(offsets.rows, ax) # 0
  /\ \E i \in Images, ax \in Axes : ~IsWhole(offsets.rows[i][ax])
  /\ \E i \in Images, ax \in Axes : reg_ret.rows[i][ax] > 0

\* C2 as stated: regularize_offsets preserves the difference between any two
\* images on every axis, for every flag setting and every input.
C2_DifferencesPreservedAlways ==
  pc = "regularized" =>
    \A i \in Images, j \in Images, ax \in Axes :
      reg_ret.rows[i][ax] - reg_ret.rows[j][ax]
        = offsets.rows[i][SrcAxis(ax, args.offset_order_xyz)]
          - offsets.rows[j][SrcAxis(ax, args.offset_order_xyz)]

\* C2 amended: the differences are preserved exactly when intify_offsets is
\* unset or every input offset is a whole number; with intify_offsets set they
\* are the differences of the rounded values, at most one pixel away.
C2_DifferencesPreserved ==
  pc = "regularized" =>
    \A i \in Images, j \in Images, ax \in Axes :
      LET dout == reg_ret.rows[i][ax] - reg_ret.rows[j][ax]
          din  == offsets.rows[i][SrcAxis(ax, args.offset_order_xyz)]
                  - offsets.rows[j][SrcAxis(ax, args.offset_order_xyz)]
          whole == \A k \in Images, a \in Axes : IsWhole(offsets.rows[k][a])
      IN  /\ (~args.intify_offsets \/ whole) => dout = din
          /\ Abs(dout - din) <= Unit

\* C2 witness: fractional offsets regularized without rounding, axes reversed,
\* two images that differ differently on two axes.
C2_Witness ==
  /\ pc = "regularized" /\ ~args.intify_offsets /\ args.offset_order_xyz
  /\ NAxes >= 2
  /\ \E i \in Images, j \in Images :
       /\ ~IsWhole(offsets.rows[i][1] - offsets.rows[j][1])
       /\ offsets.rows[i][1] - offsets.rows[j][1] # offsets.rows[i][NAxes] - offsets.rows[j][NAxes]
       /\ reg_ret.rows[i][NAxes] - reg_ret.rows[j][NAxes] = offsets.rows[i][1] - offsets.rows[j][1]

-----------------------------------------------------------------------------
\* Reference bounds of the common region on axis ax (fixed point).
RefUpper(ax, xyz, intify) ==
  SetMin({NormOffset(i, ax, xyz, intify) + shapes.rows[i][ax] * Unit : i \in Images})
RefLower(ax, xyz, intify) ==
  SetMax({NormOffset(i, ax, xyz, intify) : i \in Images})
RefOuter(ax, xyz, intify) ==
  SetMax({NormOffset(i, ax, xyz, intify) + shapes.rows[i][ax] * Unit : i \in Images})

IsTestSquare == shapes.rows = TestShapesSquare /\ offsets.rows = TestOffsets

\* C3: offseted_shape(method='outer') returns, per row-major axis, the rounded
\* maximum over the images of shape + normalized offset, the offsets' axis-order
\* flag deciding the axis an offset component belongs to; the three 10x10 images
\* at [1,1], [-1,1], [1.9,0] give (11,13) for xyz offsets, (13,11) for row-major.
C3_OuterShape ==
  (pc = "shaped" /\ args.method = "outer") =>
    /\ shape_ret.err = "none"
    /\ Len(shape_ret.shape) = NAxes
    /\ \A ax \in Axes :
         shape_ret.shape[ax]
           = Around(RefOuter(ax, args.offset_order_xyz, args.intify_offsets))
    /\ IsTestSquare =>
         shape_ret.shape = IF args.offset_order_xyz THEN <<Unit + 1, Unit + 3>>
                           ELSE <<Unit + 3, Unit + 1>>

\* C3 witness: the 10x10 example with row-major offsets, giving (13,11).
C3_Witness ==
  /\ pc = "shaped" /\ args.method = "outer" /\ ~args.offset_order_xyz
  /\ ~args.intify_offsets
  /\ IsTestSquare
  /\ shape_ret.shape = <<Unit + 3, Unit + 1>>

\* C4 as stated: offseted_shape(method='inner') fails exactly when upper < lower
\* on some axis and otherwise returns the extent upper - lower on every axis.
C4_InnerExtentExact ==
  (pc = "shaped" /\ args.method = "inner") =>
    LET xyz == args.offset_order_xyz
        intify == args.intify_offsets
    IN  /\ shape_ret.err = "ValueError"
             <=> \E ax \in Axes : RefUpper(ax, xyz, intify) < RefLower(ax, xyz, intify)
        /\ shape_ret.err = "none" =>
             \A ax \in Axes :
               shape_ret.shape[ax] * Unit
                 = RefUpper(ax, xyz, intify) - RefLower(ax, xyz, intify)

\* C4 amended: offseted_shape(method='inner') fails exactly when upper < lower on
\* some axis and otherwise returns upper - lower rounded to the nearest integer
\* (half to even) on every axis; upper = lower is accepted and gives 0.
C4_InnerExtentRounded ==
  (pc = "shaped" /\ args.method = "inner") =>
    LET xyz == args.offset_order_xyz
        intify == args.intify_offsets
    IN  /\ shape_ret.err \in {"none", "ValueError"}
        /\ shape_ret.err = "ValueError"
             <=> \E ax \in Axes : RefUpper(ax, xyz, intify) < RefLower(ax, xyz, intify)
        /\ shape_ret.err = "ValueError" => shape_ret.shape = <<>> /\ shape_ret.offsets = <<>>
        /\ shape_ret.err = "none" =>
             /\ Len(shape_ret.shape) = NAxes
             /\ \A ax \in Axes :
                  /\ shape_ret.shape[ax]
                       = Around(RefUpper(ax, xyz, intify) - RefLower(ax, xyz, intify))
                  /\ RefUpper(ax, xyz, intify) = RefLower(ax, xyz, intify)
                       => shape_ret.shape[ax] = 0

\* C4 witness: an accepted 'inner' call of several images with one axis on which
\* upper = lower (extent 0) and one with a positive extent.
C4_Witness ==
  /\ pc = "shaped" /\ args.method = "inner" /\ shape_ret.err = "none"
  /\ NImages >= 2
  /\ \E ax \in Axes :
       /\ RefUpper(ax, args.offset_order_xyz, args.intify_offsets)
            = RefLower(ax, args.offset_order_xyz, args.intify_offsets)
       /\ RefLower(ax, args.offset_order_xyz, args.intify_offsets) > 0
       /\ shape_ret.shape[ax] = 0
  /\ \E ax \in Axes : shape_ret.shape[ax] > 0

\* C5: whenever offseted_shape(method='inner') does not fail, the 'outer' shape
\* for the same arguments and flags is at least the 'inner' shape on every axis.
C5_OuterAtLeastInner ==
  (pc = "shaped" /\ args.method = "outer") =>
    LET inner == offseted_shape(shapes, offsets, "inner", args.offset_order_xyz,
                                args.intify_offsets, args.pythonize_offsets)
    IN  inner.err = "none" =>
          \A ax \in Axes : shape_ret.shape[ax] >= inner.shape[ax]

\* C5 witness: an 'outer' call whose 'inner' counterpart succeeds, the two
\* shapes being equal on one axis and different on another.
C5_Witness ==
  /\ pc = "shaped" /\ args.method = "outer"
  /\ LET inner == offseted_shape(shapes, offsets, "inner", args.offset_order_xyz,
                                 args.intify_offsets, args.pythonize_offsets)
     IN  /\ inner.err = "none"
         /\ \E ax \in Axes : shape_ret.shape[ax] > inner.shape[ax] /\ inner.shape[ax] > 0
         /\ \E ax \in Axes : shape_ret.shape[ax] = inner.shape[ax]

-----------------------------------------------------------------------------
\* Reference values for offsets2slice.

\* both arguments are n x D matrices of the same dimensions
ValidArrays == shapes.ndim = 2 /\ offsets.ndim = 2 /\ ArrayShape(shapes) = ArrayShape(offsets)

\* shape of image i on row-major axis ax
RefShape(i, ax) == shapes.rows[i][SrcAxis(ax, args.shape_order_xyz)]
\* rounded normalized offset of image i on row-major axis ax, in pixels
RefStart(i, ax) == Around(RelOffset(i, ax, args.offset_order_xyz))
RefOffMax(ax) == SetMax({RefStart(i, ax) : i \in Images})
RefMinEnd(ax) == SetMin({RefStart(i, ax) + RefShape(i, ax) : i \in Images})

\* the same call with other values of outer_for_stack and fits_convention
SameCall(stack, fits) ==
  offsets2slice(shapes, offsets, args.method, args.shape_order_xyz,
                args.offset_order_xyz, stack, fits)

\* the slice start:stop
Range(a, b) == MkSlice(Some(a), Some(b), NoneVal)

\* C6: offsets2slice(method='outer') gives image i, per row-major axis, the range
\* from its rounded normalized offset to that plus its shape (so of the image's
\* length); with outer_for_stack the list starts with the extra range [i, i+1),
\* and without it the result is the stacked result less that first range.
C6_OuterSlices ==
  (pc = "sliced" /\ args.method = "outer" /\ ~args.fits_convention /\ ValidArrays) =>
    LET lead    == IF args.outer_for_stack THEN 1 ELSE 0
        plain   == SameCall(FALSE, FALSE).slices
        stacked == SameCall(TRUE, FALSE).slices
    IN  /\ slice_ret.err = "none"
        /\ Len(slice_ret.slices) = NImages
        /\ \A i \in Images :
             LET sl == slice_ret.slices[i]
             IN  /\ Len(sl) = NAxes + lead
                 /\ args.outer_for_stack => sl[1] = Range(i - 1, i)
                 /\ \A ax \in Axes :
                      /\ sl[lead + ax]
                           = Range(RefStart(i, ax), RefStart(i, ax) + RefShape(i, ax))
                      /\ sl[lead + ax].stop.v - sl[lead + ax].start.v = RefShape(i, ax)
                 /\ plain[i] = Tail(stacked[i])

\* C6 witness: a stacked 'outer' call on two-axis images with reversed shapes,
\* an image away from the origin and shapes that differ between the axes.
C6_Witness ==
  /\ pc = "sliced" /\ args.method = "outer" /\ ~args.fits_convention /\ ValidArrays
  /\ args.outer_for_stack /\ args.shape_order_xyz
  /\ NImages >= 2 /\ NAxes = 2
  /\ \E i \in Images :
       /\ shapes.rows[i][1] # shapes.rows[i][2]
       /\ slice_ret.slices[i][1] = Range(i - 1, i)
       /\ slice_ret.slices[i][2].start.v > 0
       /\ slice_ret.slices[i][2].stop.v - slice_ret.slices[i][2].start.v = shapes.rows[i][2]

\* C7: offsets2slice(method='inner') fails when min over images of
\* (offset + shape) <= offmax = max over images of the offset on some axis, and
\* otherwise gives image i the range [offmax - offset, min(offset + shape) - offset).
C7_InnerSlices ==
  (pc = "sliced" /\ args.method = "inner" /\ ValidArrays) =>
    /\ slice_ret.err \in {"none", "ValueError"}
    /\ slice_ret.err = "ValueError" <=> \E ax \in Axes : RefMinEnd(ax) <= RefOffMax(ax)
    /\ (slice_ret.err = "none" /\ ~args.fits_convention) =>
         /\ Len(slice_ret.slices) = NImages
         /\ \A i \in Images :
              /\ Len(slice_ret.slices[i]) = NAxes
              /\ \A ax \in Axes :
                   slice_ret.slices[i][ax]
                     = Range(RefOffMax(ax) - RefStart(i, ax), RefMinEnd(ax) - RefStart(i, ax))

\* C7 witness: an accepted 'inner' call in which some image's range starts
\* inside the image and ends before its end.
C7_Witness ==
  /\ pc = "sliced" /\ args.method = "inner" /\ ValidArrays
  /\ slice_ret.err = "none" /\ ~args.fits_convention
  /\ NImages >= 2
  /\ \E i \in Images, j \in Images, ax \in Axes :
       /\ slice_ret.slices[i][ax].start.v > 0
       /\ slice_ret.slices[j][ax].stop.v < RefShape(j, ax)

\* C8: offsets2slice fails, without slices, when the shapes or the offsets are
\* not 2-dimensional after promoting a single vector, when their dimensions
\* differ, and when the method is neither 'outer' nor 'inner'; offseted_shape
\* fails too for any other method.
C8_InvalidInputRejected ==
  pc = "sliced" =>
    /\ ( \/ shapes.ndim > 2 \/ offsets.ndim > 2
         \/ <<NRows(shapes.rows), NCols(shapes.rows)>> # <<NImages, NAxes>>
         \/ args.method \notin {"outer", "inner"} )
         => slice_ret = SliceError("ValueError")
    \* a single vector is promoted to one row, not rejected
    /\ ( /\ shapes.ndim <= 2 /\ offsets.ndim <= 2
         /\ <<NRows(shapes.rows), NCols(shapes.rows)>> = <<NImages, NAxes>>
         /\ args.method = "outer" )
         => slice_ret.err = "none"
    /\ (ValidArrays /\ args.method \notin {"outer", "inner"}) =>
         \A intify \in BOOLEAN, py \in BOOLEAN :
           offseted_shape(shapes, offsets, args.method, args.offset_order_xyz, intify, py)
             = ShapeError("ValueError")

\* C8 witness: a call with an acceptable method and equal dimensions that is
\* rejected only because the shapes are nested one level too deep.
C8_Witness ==
  /\ pc = "sliced" /\ args.method = "outer"
  /\ shapes.ndim = 3 /\ offsets.ndim = 2
  /\ NRows(shapes.rows) = NImages /\ NCols(shapes.rows) = NAxes
  /\ slice_ret = SliceError("ValueError")

-----------------------------------------------------------------------------
\* The fields of a section string, as pairs of integers

SectionFields(str) == Split(SubSeq(str, 2, Len(str) - 1), ",")
FieldIsPair(f) ==
  /\ Len(Split(f, ":")) = 2
  /\ \A k \in 1..2 : IsIntText(Split(f, ":")[k])
FieldPair(f) == <<ParseInt(Split(f, ":")[1]), ParseInt(Split(f, ":")[2])>>

\* C9: with fits_convention the result for an image is one string "[...]" of
\* comma-joined fields start+1:stop of the 0-based ranges, in the reverse of the
\* row-major order (the stack field i+1:i+1 last): the same ranges as those of
\* the fits_convention=False result.
C9_FitsStrings ==
  (pc = "sliced" /\ args.fits_convention /\ slice_ret.err = "none") =>
    LET plain == SameCall(args.outer_for_stack, FALSE)
    IN  /\ plain.err = "none"
        /\ Len(slice_ret.strs) = NImages
        /\ \A i \in Images :
             LET str    == slice_ret.strs[i]
                 native == plain.slices[i]
                 fields == SectionFields(str)
                 n      == Len(native)
             IN  /\ Head(str) = "[" /\ str[Len(str)] = "]"
                 /\ Len(fields) = n
                 /\ \A k \in 1..n :
                      /\ FieldIsPair(fields[k])
                      /\ FieldPair(fields[k])
                           = <<native[n + 1 - k].start.v + 1, native[n + 1 - k].stop.v>>
                 /\ (args.method = "outer" /\ args.outer_for_stack) =>
                      fields[n] = FmtInt(i) \o <<":">> \o FmtInt(i)

\* C9 witness: the strings of the stacked 'outer' test call,
\* '[3:17,2:11,1:1]', '[1:10,2:11,2:2]', '[4:13,1:10,3:3]'.
C9_Witness ==
  /\ pc = "sliced" /\ args.fits_convention /\ args.method = "outer"
  /\ args.outer_for_stack /\ args.offset_order_xyz /\ ~args.shape_order_xyz
  /\ shapes.rows = TestShapes /\ offsets.rows = TestOffsets
  /\ slice_ret.strs[1] = <<"[", "3", ":", "1", "7", ",", "2", ":", "1", "1", ",", "1", ":", "1", "]">>
  /\ slice_ret.strs[3] = <<"[", "4", ":", "1", "3", ",", "1", ":", "1", "0", ",", "3", ":", "3", "]">>

\* C10: every string of offsets2slice(method='outer', outer_for_stack=False,
\* fits_convention=True), parsed by slice_from_string(fits_convention=True),
\* yields the (start, stop) ranges of the fits_convention=False result.
C10_RoundTrip ==
  (pc = "parsed" /\ args.method = "outer" /\ ~args.outer_for_stack) =>
    LET native == SameCall(FALSE, FALSE).slices[parse_ret.image]
        parsed == parse_ret.res
    IN  /\ parsed.err = "none"
        /\ Len(parsed.slices) = Len(native)
        /\ \A ax \in 1..Len(native) :
             /\ parsed.slices[ax].start = native[ax].start
             /\ parsed.slices[ax].stop = native[ax].stop

-----------------------------------------------------------------------------
\* the shape offseted_shape(shapes, offsets, method='outer') returns with its
\* default flags but the given intify_offsets
DefaultOuterShape(intify) == offseted_shape(shapes, offsets, "outer", TRUE, intify, TRUE)

\* a non-stacked, non-FITS 'outer' call of offsets2slice that reads the shapes
\* and offsets as offseted_shape does by default
PlainOuterCall ==
  /\ pc = "sliced" /\ args.method = "outer" /\ ValidArrays
  /\ ~args.outer_for_stack /\ ~args.fits_convention
  /\ ~args.shape_order_xyz /\ args.offset_order_xyz

\* C11: for every image and axis the range of a non-stacked
\* offsets2slice(method='outer') lies inside the output shape that
\* offseted_shape(method='outer') returns for the same shapes and offsets with
\* its default flags: 0 <= start <= stop <= shape_out, fractional offsets included.
C11_OuterRangesFit ==
  PlainOuterCall =>
    LET out == DefaultOuterShape(FALSE)
    IN  /\ out.err = "none"
        /\ \A i \in Images, ax \in Axes :
             LET sl == slice_ret.slices[i][ax]
             IN  /\ 0 <= sl.start.v
                 /\ sl.start.v <= sl.stop.v
                 /\ sl.stop.v <= out.shape[ax]

-----------------------------------------------------------------------------
\* the pixel positions (index tuples) of an array of the given shape
Positions(shape) ==
  {t \in [1..Len(shape) -> 0..SetMax({0} \cup {shape[ax] : ax \in 1..Len(shape)})] :
     \A ax \in 1..Len(shape) : t[ax] < shape[ax]}

\* position t lies in the destination range of image i on every axis
Covers(i, t) ==
  \A ax \in Axes : /\ slice_ret.slices[i][ax].start.v <= t[ax]
                   /\ t[ax] < slice_ret.slices[i][ax].stop.v

\* the largest end of a destination range on row-major axis ax
MaxStop(ax) == SetMax({slice_ret.slices[i][ax].stop.v : i \in Images})

-----------------------------------------------------------------------------
\* Reference values for slice_from_string with fits_convention.

\* the fields of the string as written: its reading without the FITS convention
Written == slice_from_string(rule.s, FALSE)
\* a call with fits_convention on a string whose fields are all integers
FitsRead == pc = "section read" /\ rule_args.fits_convention /\ Written.err = "none"
\* field f is written with start > stop
IsReversed(f) == f.start.some /\ f.stop.some /\ f.start.v > f.stop.v
\* field f has a start below 1 or a negative stop
IsInvalidFits(f) == (f.start.some /\ f.start.v < 1) \/ (f.stop.some /\ f.stop.v < 0)
\* the written field that row-major position k of the result comes from
WrittenAt(k) == Written.slices[Len(Written.slices) + 1 - k]
\* start - 1 for a given start
StartLessOne(f) == IF f.start.some THEN Some(f.start.v - 1) ELSE NoneVal

\* C13 as stated: slice_from_string with fits_convention converts each field
\* by subtracting 1 from a given start and keeping the stop, reverses the order
\* of the fields, and fails with an invalid-index error when a field has a
\* start below 1 or a negative stop.
C13_KeepsEveryStop ==
  FitsRead =>
    /\ rule_ret.err = "ValueError"
         <=> \E k \in 1..Len(Written.slices) : IsInvalidFits(Written.slices[k])
    /\ rule_ret.err = "none" =>
         /\ Len(rule_ret.slices) = Len(Written.slices)
         /\ \A k \in 1..Len(rule_ret.slices) :
              /\ rule_ret.slices[k].start = StartLessOne(WrittenAt(k))
              /\ rule_ret.slices[k].stop = WrittenAt(k).stop

\* C13 amended: the same, the stop (and the step) being kept for the fields that
\* are not written with start > stop; the result is an error or one range per field.
C13_FitsConversion ==
  FitsRead =>
    /\ rule_ret.err \in {"none", "ValueError"}
    /\ rule_ret.err = "ValueError"
         <=> \E k \in 1..Len(Written.slices) : IsInvalidFits(Written.slices[k])
    /\ rule_ret.err = "ValueError" => rule_ret.slices = <<>>
    /\ rule_ret.err = "none" =>
         /\ Len(rule_ret.slices) = Len(Written.slices)
         /\ \A k \in 1..Len(rule_ret.slices) :
              /\ rule_ret.slices[k].start = StartLessOne(WrittenAt(k))
              /\ ~IsReversed(WrittenAt(k)) =>
                   /\ rule_ret.slices[k].stop = WrittenAt(k).stop
                   /\ rule_ret.slices[k].step = WrittenAt(k).step

\* C13 witness: '[1:3, 1:2]' read with fits_convention as (0:2, 0:3).
C13_Witness ==
  /\ FitsRead
  /\ rule.s = <<"[">> \o Field2(1, 3) \o <<",", " ">> \o Field2(1, 2) \o <<"]">>
  /\ rule_ret = [err |-> "none", slices |-> <<Range(0, 2), Range(0, 3)>>]

\* C14: a FITS field written with start > stop becomes a reversed range: start
\* is start - 1, the step is -1 when none is given and the negated step
\* otherwise, and the stop is stop - 2, or None when the written stop is 1;
\* 100:10 becomes (99, 8, -1).
C14_ReversedField ==
  (FitsRead /\ rule_ret.err = "none") =>
    /\ \A k \in 1..Len(rule_ret.slices) :
         LET f == WrittenAt(k)
         IN  IsReversed(f) =>
               rule_ret.slices[k]
                 = MkSlice(Some(f.start.v - 1),
                           IF f.stop.v = 1 THEN NoneVal ELSE Some(f.stop.v - 2),
                           IF f.step.some THEN Some(0 - f.step.v) ELSE Some(0 - 1))
    /\ rule.s = Bracket(<<Field2(Unit * Unit, Unit)>>) =>
         rule_ret.slices = <<MkSlice(Some(Unit * Unit - 1), Some(Unit - 2), Some(0 - 1))>>

\* C14 witness: two reversed fields, one with a step and a stop above 1, one
\* whose written stop is 1.
C14_Witness ==
  /\ FitsRead /\ rule_ret.err = "none"
  /\ Len(rule_ret.slices) = 2
  /\ IsReversed(WrittenAt(1)) /\ WrittenAt(1).step.some /\ WrittenAt(1).stop.v > 1
  /\ IsReversed(WrittenAt(2)) /\ WrittenAt(2).stop.v = 1
  /\ rule_ret.slices[1].step.v = 0 - WrittenAt(1).step.v
  /\ rule_ret.slices[2].stop = NoneVal

-----------------------------------------------------------------------------
\* Reference values for bezel2slice and slicefy.

\* v is a list of integers
IsIntList(v) == v.t = "list" /\ \A k \in 1..Len(v.items) : v.items[k].t = "int"
\* v is a bezel set: a non-empty list of [lower, upper] pairs of integers
IsPairList(v) ==
  /\ v.t = "list" /\ v.items # <<>>
  /\ \A k \in 1..Len(v.items) : IsIntList(v.items[k]) /\ Len(v.items[k].items) = 2
\* the range that trims lower elements from the start and upper from the end
Trim(lower, upper) ==
  MkSlice(Some(lower), IF upper = 0 THEN NoneVal ELSE Some(0 - upper), NoneVal)
\* the position in a list of d entries that lands on row-major axis k
Landing(k, d, order_xyz) == IF order_xyz THEN d + 1 - k ELSE k

\* C15: bezel2slice turns a bezel set with one [lower, upper] pair per axis into
\* one range per pair, (lower, None if upper == 0 else -upper); with order_xyz
\* the list of pairs is reversed first, without it pair k lands on axis k.
C15_BezelPairs ==
  (pc = "bezelled" /\ IsPairList(rule)) =>
    LET d == Len(rule.items)
    IN  /\ rule_ret.err = "none"
        /\ Len(rule_ret.slices) = d
        /\ \A k \in 1..d :
             LET pair == rule.items[Landing(k, d, rule_args.order_xyz)].items
             IN  rule_ret.slices[k] = Trim(pair[1].n, pair[2].n)

\* C15 witness: several distinct pairs with order_xyz, one with upper = 0 and
\* one with upper > 0, the first pair of the input landing on the last axis.
C15_Witness ==
  /\ pc = "bezelled" /\ IsPairList(rule) /\ rule_args.order_xyz
  /\ Len(rule.items) >= 2
  /\ rule.items[1] # rule.items[Len(rule.items)]
  /\ rule.items[1].items[2].n = 0 /\ rule.items[2].items[2].n > 0
  /\ rule_ret.slices[Len(rule.items)] = MkSlice(Some(rule.items[1].items[1].n), NoneVal, NoneVal)
  /\ rule_ret.slices[Len(rule.items) - 1].stop = Some(0 - rule.items[2].items[2].n)

\* a bare bezel width: an integer n, [n] or [n_x, n_y]
IsBareWidth(v) == v.t = "int" \/ (IsIntList(v) /\ Len(v.items) \in {1, 2})
\* the width a bare bezel gives row-major axis ax of a two-axis image
BareWidthOn(v, ax, order_xyz) ==
  IF v.t = "int" THEN v.n
  ELSE IF Len(v.items) = 1 THEN v.items[1].n
  ELSE v.items[Landing(ax, 2, order_xyz)].n
\* the number of elements the range sl selects on an axis of length L
Extent(sl, L) ==
  LET Clip(x) == IF x < 0 THEN SetMax({0, L + x}) ELSE SetMin({x, L})
      lo == IF sl.start.some THEN Clip(sl.start.v) ELSE 0
      hi == IF sl.stop.some THEN Clip(sl.stop.v) ELSE L
  IN  SetMax({0, hi - lo})
\* the extent that indexing an L x L array with the tuple leaves on axis ax
ExtentOn(slices, ax, L) == IF ax <= Len(slices) THEN Extent(slices[ax], L) ELSE L

\* C16: bezel2slice accepts a bare width n (a scalar, [n], or [n_x, n_y]) and
\* returns ranges that trim n elements from both ends of each axis, so that an
\* axis of length L > 2n keeps L - 2n elements: bezel2slice(4) selects the
\* central 2x2 block of a 10x10 array, bezel2slice([3, 4]) rows 4..5 and
\* columns 3..6.
C16_BareWidth ==
  (pc = "bezelled" /\ IsBareWidth(rule)) =>
    /\ rule_ret.err = "none"
    /\ Len(rule_ret.slices) <= 2
    /\ \A ax \in 1..2 :
         LET n == BareWidthOn(rule, ax, rule_args.order_xyz)
         IN  2 * n < Unit =>
               /\ ExtentOn(rule_ret.slices, ax, Unit) = Unit - 2 * n
               /\ ax <= Len(rule_ret.slices) => rule_ret.slices[ax].start = Some(n)

-----------------------------------------------------------------------------
\* a call of slicefy with an integer or a list of integers
BareRule == pc = "slicefied" /\ (rule.t = "int" \/ IsIntList(rule))
\* the integers of such a rule
RuleWidths == IF rule.t = "int" THEN <<rule.n>> ELSE [k \in 1..Len(rule.items) |-> rule.items[k].n]
\* the width that falls on row-major axis k of ndim
WidthOn(k) ==
  IF Len(RuleWidths) = 1 THEN RuleWidths[1]
  ELSE RuleWidths[Landing(k, rule_args.ndim, rule_args.order_xyz)]
\* every n broadcast to [n, n], the set broadcast to ndim
BroadcastPairs ==
  PyList([k \in 1..rule_args.ndim |->
            LET n == IF Len(RuleWidths) = 1 THEN RuleWidths[1] ELSE RuleWidths[k]
            IN  PyList(<<PyInt(n), PyInt(n)>>)])
\* what slicefy returns for an integer rule whose set of pairs fits ndim
BareRuleResult ==
  /\ rule_ret.err = "none"
  /\ Len(rule_ret.slices) = rule_args.ndim
  /\ \A k \in 1..rule_args.ndim : rule_ret.slices[k] = PySlice(Trim(WidthOn(k), WidthOn(k)))
  /\ rule_ret.slices = AsValues(bezel2slice(BroadcastPairs, rule_args.order_xyz).slices)

\* C17 as stated: slicefy reads an integer or a sequence of integers as bezels:
\* each n becomes [n, n], the pairs are broadcast to ndim axes, a set of length
\* other than 1 or ndim failing with a length error, and the result is
\* bezel2slice of the set; slicefy([a, b]) with ndim=2 is (b:-b, a:-a) with
\* order_xyz and (a:-a, b:-b) without.
C17_BezelRule ==
  BareRule =>
    /\ Len(RuleWidths) \notin {1, rule_args.ndim} => rule_ret = RuleError("ValueError")
    /\ Len(RuleWidths) \in {1, rule_args.ndim} => BareRuleResult

\* C17 amended: the same for a non-empty sequence; an empty sequence fails with
\* an IndexError before any broadcasting.
C17_BezelRuleNonEmpty ==
  BareRule =>
    /\ (Len(RuleWidths) \notin {1, rule_args.ndim} /\ RuleWidths # <<>>)
         => rule_ret = RuleError("ValueError")
    /\ RuleWidths = <<>> => rule_ret = RuleError("IndexError")
    /\ Len(RuleWidths) \in {1, rule_args.ndim} => BareRuleResult

\* C17 witness: slicefy([a, b]) with ndim=2, order_xyz and 0 < a < b, giving
\* (b:-b, a:-a).
C17_Witness ==
  /\ BareRule /\ rule.t = "list" /\ Len(rule.items) = 2
  /\ rule_args.ndim = 2 /\ rule_args.order_xyz
  /\ 0 < rule.items[1].n /\ rule.items[1].n < rule.items[2].n
  /\ rule_ret.slices = <<PySlice(Range(rule.items[2].n, 0 - rule.items[2].n)),
                         PySlice(Range(rule.items[1].n, 0 - rule.items[1].n))>>

\* v is a non-empty list of strings
IsStrList(v) ==
  v.t = "list" /\ v.items # <<>> /\ \A k \in 1..Len(v.items) : v.items[k].t = "str"
\* the tuple slice_from_string gives for a section with the FITS convention
FitsTuple(str) == AsValues(slice_from_string(str, TRUE).slices)

\* C18: slicefy of a string is slice_from_string of it with the FITS convention
\* forced on, and slicefy of a sequence of section strings is a sequence with
\* one tuple of ranges per string, each read in the FITS convention.
C18_SectionRules ==
  pc = "slicefied" =>
    /\ rule.t = "str" =>
         /\ rule_ret.err = slice_from_string(rule.s, TRUE).err
         /\ rule_ret.slices = FitsTuple(rule.s)
    /\ IsStrList(rule) =>
         /\ rule_ret.err = "none"
         /\ Len(rule_ret.slices) = Len(rule.items)
         /\ \A k \in 1..Len(rule.items) :
              rule_ret.slices[k] = PyList(FitsTuple(rule.items[k].s))

\* the rules slicefy documents: None, a string, an integer, a sequence of
\* integers, a slice, a sequence of slices
IsSliceList(v) ==
  v.t = "list" /\ v.items # <<>> /\ \A k \in 1..Len(v.items) : v.items[k].t = "slice"
IsDocumentedRule(v) ==
  v.t \in {"none", "str", "int", "slice"} \/ IsIntList(v) \/ IsSliceList(v)

\* C19: for every rule slicefy accepts (None, a section string, an integer, a
\* sequence of integers, a slice, a sequence of slices) the result has exactly
\* ndim ranges; slicefy(None, ndim) is ndim unbounded ranges.
C19_NdimRanges ==
  (pc = "slicefied" /\ IsDocumentedRule(rule) /\ rule_ret.err = "none") =>
    /\ Len(rule_ret.slices) = rule_args.ndim
    /\ \A k \in 1..Len(rule_ret.slices) : rule_ret.slices[k].t = "slice"
    /\ rule = PyNone => \A k \in 1..rule_args.ndim : rule_ret.slices[k] = PySlice(NullSlice)

-----------------------------------------------------------------------------
\* Reference values for listify.

\* the sequence an input is reduced to with the default flags
Reduced(obj) == IF obj.t = "list" THEN obj.items ELSE <<obj>>
\* the longest of the reduced inputs
MaxReduced == SetMax({Len(Reduced(objs[k])) : k \in 1..Len(objs)})
\* a call of listify on several inputs with the default flags
MultiListify == pc = "listified" /\ Len(objs) >= 2 /\ list_args = DefaultListArgs

\* C20: listify of several inputs with default flags reduces each input to a
\* sequence (a scalar or a string to one element, None to [None]), fails with a
\* length error if a length is neither 1 nor the largest, and otherwise returns
\* one sequence per input, in order, all of the largest length, the one-element
\* sequences replicated; listify([1, 2], 'a', None) is
\* [[1, 2], ['a', 'a'], [None, None]].
C20_ListifyBroadcast ==
  MultiListify =>
    /\ list_ret.err \in {"none", "ValueError"}
    /\ list_ret.err = "ValueError"
         <=> \E k \in 1..Len(objs) : Len(Reduced(objs[k])) \notin {1, MaxReduced}
    /\ list_ret.err = "ValueError" => list_ret.val = PyNone
    /\ list_ret.err = "none" =>
         /\ list_ret.val.t = "list"
         /\ Len(list_ret.val.items) = Len(objs)
         /\ \A k \in 1..Len(objs) :
              LET out == list_ret.val.items[k]
                  red == Reduced(objs[k])
              IN  /\ out.t = "list"
                  /\ Len(out.items) = MaxReduced
                  /\ \A j \in 1..MaxReduced :
                       out.items[j] = IF Len(red) = 1 THEN red[1] ELSE red[j]
    /\ objs = <<PyList(<<PyInt(1), PyInt(2)>>), PyStr(<<"a">>), PyNone>> =>
         list_ret.val = PyList(<<PyList(<<PyInt(1), PyInt(2)>>),
                                 PyList(<<PyStr(<<"a">>), PyStr(<<"a">>)>>),
                                 PyList(<<PyNone, PyNone>>)>>)

\* C20 witness: listify([1, 2], 'a', None) = [[1, 2], ['a', 'a'], [None, None]].
C20_Witness ==
  /\ MultiListify
  /\ objs = <<PyList(<<PyInt(1), PyInt(2)>>), PyStr(<<"a">>), PyNone>>
  /\ list_ret = Return(PyList(<<PyList(<<PyInt(1), PyInt(2)>>),
                                PyList(<<PyStr(<<"a">>), PyStr(<<"a">>)>>),
                                PyList(<<PyNone, PyNone>>)>>))

-----------------------------------------------------------------------------
\* C21: for every list-like x, the empty sequence and sequences holding None
\* included, listify(listify(x)) with default flags equals listify(x).
C21_ListifyIdempotent ==
  (pc = "listified" /\ Len(objs) = 1 /\ is_list_like(objs[1]) /\ list_args = DefaultListArgs) =>
    /\ list_ret.err = "none"
    /\ listify(<<list_ret.val>>, TRUE, FALSE) = list_ret
    /\ list_ret.val.items = objs[1].items

\* C21 witness: listify of a list of several entries, one of them None.
C21_Witness ==
  /\ pc = "listified" /\ Len(objs) = 1 /\ is_list_like(objs[1]) /\ list_args = DefaultListArgs
  /\ Len(objs[1].items) >= 2
  /\ \E k \in 1..Len(objs[1].items) : objs[1].items[k] = PyNone
  /\ \E k \in 1..Len(objs[1].items) : objs[1].items[k] # PyNone
  /\ listify(<<list_ret.val>>, TRUE, FALSE).val = objs[1]

\* a call of ndfy, of list.py or of lists.py
NdfyCalled == pc \in {"ndfied", "lists ndfied"}
\* the sequence ndfy works on: a list as it is, a scalar or None wrapped, every
\* None replaced by default
NdfyItems == FillDefault(Reduced(objs[1]), list_args.default)

\* C22: ndfy wraps a scalar and wraps None into a one-element sequence, replaces
\* every None by default, returns the sequence as it is when length is omitted
\* or matches, replicates a one-element sequence to length elements and fails
\* with a length error otherwise; ndfy(None, length=2, default=1) is [1, 1],
\* for the ndfy that slicefy uses too.
C22_Ndfy ==
  NdfyCalled =>
    /\ (~list_args.length.some \/ Len(NdfyItems) = list_args.length.v)
         => list_ret = Return(PyList(NdfyItems))
    /\ (list_args.length.some /\ Len(NdfyItems) = 1)
         => list_ret = Return(PyList([k \in 1..list_args.length.v |-> NdfyItems[1]]))
    /\ (list_args.length.some /\ Len(NdfyItems) \notin {1, list_args.length.v})
         => list_ret = Raise("ValueError")
    /\ (objs[1] = PyNone /\ list_args.length = Some(2) /\ list_args.default = PyInt(1))
         => list_ret = Return(PyList(<<PyInt(1), PyInt(1)>>))

-----------------------------------------------------------------------------
\* calc_offset_physical and the LTM cards of its headers.

\* the header has an LTMi_j that differs from the identity matrix, or an LTMi
\* that is not 1
NonIdentityLtm(hdr) ==
  \E i \in 1..Lookup(hdr, NaxisKey) :
    \/ \E j \in 1..Lookup(hdr, NaxisKey) :
         /\ HasKey(hdr, LtmIJ(i, j))
         /\ Lookup(hdr, LtmIJ(i, j)) # (IF i = j THEN Unit ELSE 0)
    \/ HasKey(hdr, LtmI(i)) /\ Lookup(hdr, LtmI(i)) # Unit

\* calc_offset_physical was called on headers and told not to ignore the LTM
LtmChecked ==
  /\ pc = "physical"
  /\ target.kind = "Header"
  /\ reference.kind # "str"
  /\ ~phys_args.ignore_nondiag_ltm

\* the LTV difference of target and reference, in x, y order
RefPhysical ==
  [k \in 1..2 |->
     LET obj == IF HasKey(target, LtvKey(k - 1)) THEN Lookup(target, LtvKey(k - 1)) ELSE 0
         ref == IF HasKey(reference, LtvKey(k - 1))
                THEN Lookup(reference, LtvKey(k - 1)) ELSE 0
     IN  IF phys_args.intify_offset THEN Around(obj - ref) * Unit ELSE obj - ref]

\* C23: with ignore_nondiag_ltm=False, calc_offset_physical fails with
\* NotImplementedError whenever the target or the reference header carries a
\* non-identity LTM (an LTMi_j off the identity matrix or an LTMi other than
\* 1), and returns the offset only when neither does.
C23_NonIdentityLtmFails ==
  LtmChecked =>
    IF NonIdentityLtm(target) \/ (reference.kind = "Header" /\ NonIdentityLtm(reference))
    THEN phys_ret.err = "NotImplementedError"
    ELSE /\ phys_ret.err = "none"
         /\ phys_ret.offset =
              IF phys_args.order_xyz THEN RefPhysical ELSE Reverse(RefPhysical)

-----------------------------------------------------------------------------
\* offseted_shape and its pythonize_offsets flag.

\* the same call of offseted_shape with the other value of pythonize_offsets
OtherPythonize ==
  offseted_shape(shapes, offsets, args.method, args.offset_order_xyz,
                 args.intify_offsets, ~args.pythonize_offsets)

\* C24: pythonize_offsets changes only the axis order of the offsets that
\* offseted_shape returns.  The shape (and the failure) is the same for both
\* values; the offsets are row-major with the flag set and, for offsets given
\* in xyz order, back in xyz order with the flag unset, so that each row is
\* the reverse of the row returned with the flag set; for offsets given
\* row-major the flag changes nothing.
C24_PythonizeOnlyReorders ==
  pc = "shaped" =>
    /\ OtherPythonize.err = shape_ret.err
    /\ OtherPythonize.shape = shape_ret.shape
    /\ shape_ret.err = "none" =>
         /\ \A i \in Images :
              shape_ret.offsets[i] =
                IF args.offset_order_xyz THEN Reverse(OtherPythonize.offsets[i])
                ELSE OtherPythonize.offsets[i]
         /\ \A i \in Images, ax \in Axes :
              shape_ret.offsets[i][SrcAxis(ax, args.offset_order_xyz /\ ~args.pythonize_offsets)]
                = NormOffset(i, ax, args.offset_order_xyz, args.intify_offsets)

\* offsets given in xyz order came back in xyz order, and the order shows
C24_Witness ==
  /\ pc = "shaped"
  /\ shape_ret.err = "none"
  /\ args.offset_order_xyz
  /\ ~args.pythonize_offsets
  /\ \E i \in Images : shape_ret.offsets[i] # Reverse(shape_ret.offsets[i])

-----------------------------------------------------------------------------
\* The ranges of a successful offsets2slice(method='inner').

InnerSliced ==
  /\ pc = "sliced" /\ args.method = "inner" /\ ValidArrays
  /\ slice_ret.err = "none" /\ ~args.fits_convention

\* offseted_shape(method='inner', intify_offsets=True) on the same images, the
\* shapes handed over row-major as that function expects them
InnerShapeIntified ==
  offseted_shape(IF args.shape_order_xyz THEN FlipLast(shapes) ELSE shapes, offsets,
                 "inner", args.offset_order_xyz, TRUE, TRUE)

\* C25: when offsets2slice(method='inner') succeeds, every range satisfies
\* 0 <= start < stop <= the image's shape on that axis, all images get the same
\* extent on an axis, start + normalized offset is the same for all images
\* (the ranges are one region of the common frame), and the extent is the
\* shape offseted_shape(method='inner', intify_offsets=True) returns.
C25_InnerRangesOneRegion ==
  InnerSliced =>
    /\ InnerShapeIntified.err = "none"
    /\ \A i \in Images, ax \in Axes :
         LET sl == slice_ret.slices[i][ax]
         IN  /\ sl.start.some /\ sl.stop.some /\ ~sl.step.some
             /\ 0 <= sl.start.v
             /\ sl.start.v < sl.stop.v
             /\ sl.stop.v <= RefShape(i, ax)
             /\ sl.stop.v - sl.start.v = InnerShapeIntified.shape[ax]
             /\ \A j \in Images :
                  LET sj == slice_ret.slices[j][ax]
                  IN  /\ sj.stop.v - sj.start.v = sl.stop.v - sl.start.v
                      /\ sj.start.v + RefStart(j, ax) = sl.start.v + RefStart(i, ax)

\* two images shifted against each other share a region of two or more pixels
C25_Witness ==
  /\ InnerSliced
  /\ \E i \in Images, j \in Images, ax \in Axes :
       /\ slice_ret.slices[i][ax].start.v # slice_ret.slices[j][ax].start.v
       /\ slice_ret.slices[i][ax].stop.v - slice_ret.slices[i][ax].start.v >= 2

-----------------------------------------------------------------------------
\* Translation of all the offsets by one vector.

\* shifts of -1.5 and 0.3 pixels per axis
ShiftVals == {0 - (Unit + Half), 3}
Shifts == [Axes -> ShiftVals]

\* the offsets with the vector c added to every image's offset
Shifted(c) ==
  [offsets EXCEPT !.rows = [i \in Images |-> [ax \in Axes |-> offsets.rows[i][ax] + c[ax]]]]

\* C26: adding the same vector to every image's offset changes neither what
\* offseted_shape returns (normalized offsets and shape, or the failure) nor
\* what offsets2slice returns (the ranges, or the failure), for both methods
\* and every setting of the flags.
C26_TranslationInvariant ==
  \A c \in Shifts :
    /\ pc = "shaped" =>
         shape_ret = offseted_shape(shapes, Shifted(c), args.method, args.offset_order_xyz,
                                    args.intify_offsets, args.pythonize_offsets)
    /\ pc = "sliced" =>
         slice_ret = offsets2slice(shapes, Shifted(c), args.method, args.shape_order_xyz,
                                   args.offset_order_xyz, args.outer_for_stack,
                                   args.fits_convention)

\* ranges were computed for two images half a pixel apart on some axis
C26_Witness ==
  /\ pc = "sliced"
  /\ slice_ret.err = "none"
  /\ args.method = "outer"
  /\ \E i \in Images, ax \in Axes : ~IsWhole(RelOffset(i, ax, args.offset_order_xyz))

-----------------------------------------------------------------------------
\* The sign of the bounds slice_from_string returns for FITS sections.

\* field f is written with both bounds
HasBounds(f) == f.start.some /\ f.stop.some

\* C27: when slice_from_string with fits_convention succeeds on fields with
\* explicit integer bounds, every resulting start is >= 0 and every resulting
\* stop is >= 0 or None, for fields written forward and fields written
\* reversed, a field whose stop is 0 included.
C27_FitsBoundsNonNegative ==
  (FitsRead /\ rule_ret.err = "none") =>
    \A k \in 1..Len(rule_ret.slices) :
      HasBounds(WrittenAt(k)) =>
        /\ rule_ret.slices[k].start.some
        /\ rule_ret.slices[k].start.v >= 0
        /\ rule_ret.slices[k].stop.some => rule_ret.slices[k].stop.v >= 0

-----------------------------------------------------------------------------
\* The failure of method='inner' in offseted_shape and in offsets2slice.

\* every offset is a whole number of pixels
WholeOffsets == \A i \in Images, ax \in Axes : IsWhole(offsets.rows[i][ax])

\* offsets2slice(method='inner') on the images offseted_shape was called on
InnerSliceOfShaped ==
  offsets2slice(shapes, offsets, "inner", FALSE, args.offset_order_xyz, TRUE, FALSE)

\* offseted_shape(method='inner') on the images offsets2slice was called on,
\* the shapes handed over row-major
InnerShapeOfSliced ==
  offseted_shape(IF args.shape_order_xyz THEN FlipLast(shapes) ELSE shapes, offsets,
                 "inner", args.offset_order_xyz, FALSE, TRUE)

\* C28: for integer offsets, offseted_shape(method='inner') and
\* offsets2slice(method='inner') fail for want of a common region on exactly
\* the same inputs, and a failure comes with no part of a result.
C28_SameOverlapFailure ==
  (args.method = "inner" /\ WholeOffsets) =>
    /\ pc = "shaped" =>
         /\ shape_ret.err = "ValueError" <=> InnerSliceOfShaped.err = "ValueError"
         /\ shape_ret.err # "none" => shape_ret.offsets = <<>> /\ shape_ret.shape = <<>>
    /\ pc = "sliced" =>
         /\ slice_ret.err = "ValueError" <=> InnerShapeOfSliced.err = "ValueError"
         /\ slice_ret.err # "none" => slice_ret.slices = <<>> /\ slice_ret.strs = <<>>

====
